---- MODULE Spec2Model ----
(***************************************************************************)
(* A model of suretime: tagged datetimes and intervals (_model.py), the    *)
(* zone lookups (_zone.py) and the mapping build (_cache.py).              *)
(*                                                                         *)
(* A datetime is its local (wall) reading [sec, us] together with its      *)
(* tzinfo; the UTC instant is obtained, as in the code, by astimezone.     *)
(* Local second 0 is 02:59:59 on the day the zone CET switches to CEST:    *)
(* local readings from second 1 on are summer time in that zone.           *)
(***************************************************************************)
EXTENDS Integers, Sequences, FiniteSets, TLC

VARIABLES x, y, op, res, hashOrder, zmap, zcall, zres, cache, now, cfile, ccall, cres

taggedVars == <<x, y, op, res>>
zoneVars == <<hashOrder, zmap, zcall, zres>>
cacheVars == <<cache, now, cfile, ccall, cres>>
vars == <<taggedVars, zoneVars, cacheVars>>

(***************************************************************************)
(* Bounds of the inputs.                                                   *)
(***************************************************************************)
MaxSec == 1
MaxMicroSteps == 1
MaxTickSteps == 2
MaxNodes == 2
MaxNow == 120

(***************************************************************************)
(* Results of calls: a returned value, or the exception raised.            *)
(***************************************************************************)
NoValue == [none |-> TRUE]
Ok(v) == [err |-> "", val |-> v]
Raise(e) == [err |-> e, val |-> NoValue]
NoResult == [err |-> "not called", val |-> NoValue]

(***************************************************************************)
(* tzinfo objects and what the standard library answers for them.          *)
(***************************************************************************)
TzUtc == "timezone.utc"
ZiEtcUtc == "Etc/UTC"
ZiCet == "CET"
FixedCet == "timezone(+01:00, 'CET')"
Naive == "naive"
ZiUtc == "UTC"
ZiKolkata == "Asia/Kolkata"
ZiLosAngeles == "America/Los_Angeles"
\* Africa/Monrovia at a reading before 1972, when its offset was -00:44:30
ZiMonrovia == "Africa/Monrovia"

\* tzinfo.tzname(dt): the zone abbreviation at the local reading dt
TzName(tz, dt) ==
  CASE tz = TzUtc -> "UTC"
    [] tz = ZiEtcUtc -> "UTC"
    [] tz = ZiCet -> IF dt.sec < 1 THEN "CET" ELSE "CEST"
    [] tz = FixedCet -> "CET"
    [] tz = ZiUtc -> "UTC"
    [] tz = ZiKolkata -> "IST"
    [] tz = ZiLosAngeles -> "PST"
    [] tz = ZiMonrovia -> "MMT"
    [] OTHER -> "None"

\* tzinfo.utcoffset(dt), in seconds
UtcOffset(tz, dt) ==
  CASE tz = TzUtc -> 0
    [] tz = ZiEtcUtc -> 0
    [] tz = ZiCet -> IF dt.sec < 1 THEN 3600 ELSE 7200
    [] tz = FixedCet -> 3600
    [] tz = ZiUtc -> 0
    [] tz = ZiKolkata -> 19800
    [] tz = ZiLosAngeles -> -28800
    [] tz = ZiMonrovia -> -2670
    [] OTHER -> 0

\* dt.astimezone(timezone.utc)
AsUtc(dt) == [sec |-> dt.sec - UtcOffset(dt.tz, dt), us |-> dt.us, tz |-> TzUtc]

\* dt + timedelta(microseconds = micros): arithmetic on the local reading
DatetimeAdd(dt, micros) ==
  LET t == dt.us + micros
  IN  [sec |-> dt.sec + (t \div 1000000), us |-> t % 1000000, tz |-> dt.tz]

\* comparison of two aware datetimes: by instant
DatetimeLt(a, b) ==
  LET ua == AsUtc(a)
      ub == AsUtc(b)
  IN  ua.sec < ub.sec \/ (ua.sec = ub.sec /\ ua.us < ub.us)

DatetimeEq(a, b) ==
  LET ua == AsUtc(a)
      ub == AsUtc(b)
  IN  ua.sec = ub.sec /\ ua.us = ub.us

(***************************************************************************)
(* Clocks.                                                                 *)
(***************************************************************************)
ClockEmpty == [name |-> "clock", const |-> "None", info |-> "None"]
ClockMonotonic == [name |-> "monotonic_ns", const |-> "None", info |-> "None"]

(***************************************************************************)
(* TaggedDatetime.                                                         *)
(***************************************************************************)
\* AbstractZonedDatetime.__post_init__ on the dataclass fields
TaggedDatetime(dt, zone, source, clock_ns, clock) ==
  IF dt.tz = Naive
  THEN Raise("DatetimeMissingZoneError")
  ELSE IF TzName(dt.tz, dt) # TzName(zone, dt)
       THEN Raise("ZoneMismatchError")
       ELSE Ok([dt |-> dt, zone |-> zone, source |-> source,
                clock_ns |-> clock_ns, clock |-> clock])

\* TaggedDatetime.utc
utc(self) ==
  TaggedDatetime(AsUtc(self.dt), TzUtc, self.source, self.clock_ns, self.clock).val

\* AbstractZonedDatetime._to_utc, for another zoned datetime
to_utc(other) == AsUtc(other.dt)

\* TaggedDatetime.clock_time
clock_time(self) == [nanos |-> self.clock_ns, clock |-> self.clock]

\* TaggedDatetime.__lt__ with the clock ticks dropped from the tuples
lt_no_ticks(self, other) == DatetimeLt(utc(self).dt, to_utc(other))

\* TaggedDatetime.__lt__: the tuples (utc, ticks) compared lexicographically
lt(self, other) ==
  LET a == utc(self).dt
      b == to_utc(other)
  IN  IF ~DatetimeEq(a, b) THEN DatetimeLt(a, b) ELSE self.clock_ns < other.clock_ns

\* TaggedDatetime.__eq__
eq(self, other) ==
  DatetimeEq(utc(self).dt, to_utc(other)) /\ self.clock_ns = other.clock_ns

\* __gt__ as functools.total_ordering derives it from __lt__ and __eq__
gt(self, other) == ~lt(self, other) /\ ~eq(self, other)

\* TaggedDatetime.at_nanos
at_nanos(self, ns) ==
  LET delta == ns - self.clock_ns
      dt == DatetimeAdd(self.dt, delta \div 1000)
  IN  TaggedDatetime(dt, self.zone, self.source, ns, self.clock)

\* TaggedDatetime.at_clock
at_clock(self, clock) ==
  IF clock.clock # self.clock
  THEN Raise("ClockMismatchError")
  ELSE at_nanos(self, clock.nanos)

(***************************************************************************)
(* TaggedInterval.                                                         *)
(***************************************************************************)
\* TaggedInterval.__post_init__ on the dataclass fields
TaggedInterval(start, end) ==
  IF gt(utc(start), utc(end))
  THEN Raise("InvalidIntervalError")
  ELSE IF start.clock_ns > end.clock_ns
       THEN Raise("InvalidIntervalError")
       ELSE Ok([start |-> start, end |-> end])

\* TaggedInterval.real_nanos
real_nanos(self) == self.end.clock_ns - self.start.clock_ns

(***************************************************************************)
(* Natural numbers beyond the range of the checker's integers, as the      *)
(* sequence of their digits in base 2^15, least significant first, and     *)
(* IEEE-754 binary64 numbers as mantissa * 2^exp with the mantissa such a  *)
(* natural.  They serve TaggedInterval.wall_nanos, which goes through      *)
(* floats: int(timedelta.total_seconds() * 1e9).                           *)
(***************************************************************************)
RECURSIVE BigFromInt(_)
BigFromInt(n) ==
  IF n = 0 THEN <<>> ELSE <<n % (2^15)>> \o BigFromInt(n \div (2^15))

RECURSIVE BigNorm(_)
BigNorm(a) ==
  IF a = <<>> THEN <<>>
  ELSE IF a[Len(a)] = 0 THEN BigNorm(SubSeq(a, 1, Len(a) - 1)) ELSE a

RECURSIVE BigMulCarry(_, _, _)
BigMulCarry(a, c, carry) ==
  IF a = <<>> THEN BigFromInt(carry)
  ELSE LET t == Head(a) * c + carry
       IN  <<t % (2^15)>> \o BigMulCarry(Tail(a), c, t \div (2^15))

\* a * c, for 0 <= c <= 2^15
BigMulSmall(a, c) == BigNorm(BigMulCarry(a, c, 0))

RECURSIVE BigAddCarry(_, _, _)
BigAddCarry(a, b, carry) ==
  IF a = <<>> /\ b = <<>> THEN BigFromInt(carry)
  ELSE LET da == IF a = <<>> THEN 0 ELSE Head(a)
           db == IF b = <<>> THEN 0 ELSE Head(b)
           t == da + db + carry
       IN  <<t % (2^15)>> \o BigAddCarry(IF a = <<>> THEN <<>> ELSE Tail(a),
                                         IF b = <<>> THEN <<>> ELSE Tail(b),
                                         t \div (2^15))

BigAdd(a, b) == BigNorm(BigAddCarry(a, b, 0))

RECURSIVE BigDivRec(_, _)
BigDivRec(a, d) ==
  IF a = <<>> THEN [q |-> <<>>, r |-> 0]
  ELSE LET hi == BigDivRec(Tail(a), d)
           cur == hi.r * (2^15) + Head(a)
       IN  [q |-> <<cur \div d>> \o hi.q, r |-> cur % d]

\* quotient and remainder of a by d, for 0 < d <= 2^15
BigDivSmall(a, d) ==
  LET qr == BigDivRec(a, d) IN [q |-> BigNorm(qr.q), r |-> qr.r]

RECURSIVE SmallBitLen(_)
SmallBitLen(n) == IF n = 0 THEN 0 ELSE 1 + SmallBitLen(n \div 2)

BigBitLen(a) == IF a = <<>> THEN 0 ELSE 15 * (Len(a) - 1) + SmallBitLen(a[Len(a)])

\* a * 2^n
BigShl(a, n) ==
  IF a = <<>> THEN <<>>
  ELSE [i \in 1..(n \div 15) |-> 0] \o BigMulSmall(a, 2^(n % 15))

\* floor(a / 2^n)
BigShr(a, n) ==
  IF Len(a) <= n \div 15 THEN <<>>
  ELSE BigDivSmall(SubSeq(a, (n \div 15) + 1, Len(a)), 2^(n % 15)).q

\* bit i of a
BigBit(a, i) ==
  IF Len(a) <= i \div 15 THEN 0 ELSE (a[(i \div 15) + 1] \div (2^(i % 15))) % 2

\* some bit of a below bit n is set
BigLowBits(a, n) ==
  \/ \E i \in 1..(n \div 15) : i <= Len(a) /\ a[i] # 0
  \/ Len(a) > n \div 15 /\ a[(n \div 15) + 1] % (2^(n % 15)) # 0

\* a / 2^s rounded to the nearest integer, ties to even (s >= 1)
BigShrRoundEven(a, s) ==
  LET q == BigShr(a, s)
      up == BigBit(a, s - 1) = 1 /\ (BigLowBits(a, s - 1) \/ BigBit(q, 0) = 1)
  IN  IF up THEN BigAdd(q, <<1>>) ELSE q

\* a microsecond count of at most MaxSec-scale seconds, as a natural
BigMicros(sec, us) ==
  BigAdd(BigMulSmall(BigMulSmall(BigFromInt(sec), 1000), 1000), BigFromInt(us))

\* int / 10**6 as Python's true division gives it: the nearest binary64
FloatDivMillion(u) ==
  IF u = <<>> THEN [m |-> <<>>, e |-> 0]
  ELSE LET Quot(k) ==
             LET d1 == BigDivSmall(BigShl(u, k), 1000)
                 d2 == BigDivSmall(d1.q, 1000)
             IN  [q |-> d2.q, r |-> d2.r * 1000 + d1.r]
           k0 == 72 - BigBitLen(u)
           k == IF BigBitLen(Quot(k0).q) = 53 THEN k0 ELSE k0 + 1
           qr == Quot(k)
           up == 2 * qr.r > 1000000 \/ (2 * qr.r = 1000000 /\ BigBit(qr.q, 0) = 1)
       IN  [m |-> IF up THEN BigAdd(qr.q, <<1>>) ELSE qr.q, e |-> 0 - k]

\* f * 1e9 in binary64: the exact product rounded to 53 bits, ties to even
FloatMulBillion(f) ==
  LET p == BigMulSmall(BigMulSmall(BigMulSmall(f.m, 1000), 1000), 1000)
      s == BigBitLen(p) - 53
  IN  IF s <= 0 THEN [m |-> p, e |-> f.e]
      ELSE [m |-> BigShrRoundEven(p, s), e |-> f.e + s]

\* int(f): truncation, for f >= 0
FloatToInt(f) == IF f.e >= 0 THEN BigShl(f.m, f.e) ELSE BigShr(f.m, 0 - f.e)

\* timedelta.total_seconds() of end - start, for end not before start
total_seconds(start, end) ==
  LET dsec == end.sec - start.sec
      dus == end.us - start.us
  IN  FloatDivMillion(IF dus < 0 THEN BigMicros(dsec - 1, dus + 1000000)
                      ELSE BigMicros(dsec, dus))

\* TaggedInterval.wall_nanos
wall_nanos(self) ==
  FloatToInt(FloatMulBillion(total_seconds(utc(self.start).dt, utc(self.end).dt)))

(***************************************************************************)
(* The inputs: every tagged datetime the constructor accepts, over small   *)
(* sets of readings, zones, ticks, sources and clocks.                     *)
(***************************************************************************)
Seconds == 0..MaxSec
Micros == {0, 15, 999999} \cup {65 * k : k \in 1..MaxMicroSteps}
Ticks == {500 * k : k \in 0..MaxTickSteps} \cup {15000}
TzInfos == {TzUtc, ZiCet, FixedCet}
ZoneInfos == {ZiEtcUtc, ZiCet}
Datetimes == [sec : Seconds, us : Micros, tz : TzInfos]

TaggedInputs(sources, clocks) ==
  {r.val : r \in {q \in {TaggedDatetime(dt, z, s, n, c) :
                           dt \in Datetimes, z \in ZoneInfos, s \in sources,
                           n \in Ticks, c \in clocks} : q.err = ""}}

(***************************************************************************)
(* SpecTagged: two tagged datetimes are given; an interval is made of      *)
(* them, or the first is moved to the clock time of the second.            *)
(***************************************************************************)
InitTagged ==
  /\ x \in TaggedInputs({"None", "nope"}, {ClockEmpty})
  /\ y \in TaggedInputs({"None"}, {ClockEmpty, ClockMonotonic})
  /\ op = "init"
  /\ res = NoResult
  /\ hashOrder = <<>> /\ zmap = <<>> /\ zcall = <<>> /\ zres = NoResult
  /\ cache = <<>> /\ now = 0 /\ cfile = <<>> /\ ccall = <<>> /\ cres = NoResult

MakeInterval ==
  /\ op' = "TaggedInterval"
  /\ res' = TaggedInterval(x, y)
  /\ UNCHANGED <<x, y, zoneVars, cacheVars>>

AtClock ==
  /\ op' = "at_clock"
  /\ res' = at_clock(x, clock_time(y))
  /\ UNCHANGED <<x, y, zoneVars, cacheVars>>

NextTagged == MakeInterval \/ AtClock

SpecTagged == InitTagged /\ [][NextTagged]_vars

(***************************************************************************)
(* The timezone mapping: name -> territory -> set of zones.  A zone in the *)
(* mapping is a ZoneInfo object (a mapping just built) or a str (a mapping *)
(* decoded from the cache file).                                           *)
(***************************************************************************)
\* zoneinfo.available_timezones() of the host
IanaZones == {"Etc/GMT", "Etc/UTC", "UTC"}

ZoneInfoObj(key) == [cls |-> "ZoneInfo", key |-> key]
StrObj(key) == [cls |-> "str", key |-> key]
PyNone == [cls |-> "NoneType", key |-> "None"]

\* ZoneInfo(key): the zone of that key, if the tz database has it
ZoneInfo(key) ==
  IF key \in IanaZones THEN Ok(ZoneInfoObj(key)) ELSE Raise("ZoneInfoNotFoundError")

EmptyDict == [k \in {} |-> {}]

\* d.get(k, default)
Get(d, k, default) == IF k \in DOMAIN d THEN d[k] ELSE default

\* d[k] = v
Put(d, k, v) == [j \in (DOMAIN d) \cup {k} |-> IF j = k THEN v ELSE d[j]]

\* the mapZone elements of windowsZones.xml: other, territory and the
\* space-separated type attribute, already split
MapZones ==
  [other : {"UTC"}, territory : {"001", "ZZ"},
   type : {<<"Etc/UTC">>, <<"Etc/UTC", "Etc/GMT">>}]
    \cup {[other |-> "W. Europe Standard Time", territory |-> "001",
           type |-> <<"Etc/GMT">>]}
    \cup {[other |-> "W. Europe Standard Time", territory |-> "DE",
           type |-> <<"Europe/Busingen">>]}

RECURSIVE SeqsUpTo(_, _)
SeqsUpTo(S, n) ==
  IF n = 0 THEN {<<>>}
  ELSE LET shorter == SeqsUpTo(S, n - 1)
       IN  shorter \cup {Append(q, e) : q \in shorter, e \in S}

CldrDocs == SeqsUpTo(MapZones, MaxNodes)

\* [ZoneInfo(iana) for iana in type.split(" ")]
RECURSIVE ZoneInfoList(_)
ZoneInfoList(ids) ==
  IF ids = <<>> THEN Ok({})
  ELSE LET z == ZoneInfo(Head(ids))
           rest == ZoneInfoList(Tail(ids))
       IN  IF z.err # "" THEN z
           ELSE IF rest.err # "" THEN rest
           ELSE Ok({z.val} \cup rest.val)

\* the loop body of _build without the test  win_zone not in mp : the
\* element replaces the whole entry of its name
merge_node_replacing(mp, node, zones) ==
  Put(mp, node.other, Put(EmptyDict, node.territory, zones))

\* the loop body of _build for one mapZone element
merge_node(mp, node, zones) ==
  Put(mp, node.other, Put(Get(mp, node.other, EmptyDict), node.territory, zones))

RECURSIVE merge_nodes(_, _)
merge_nodes(mp, nodes) ==
  IF nodes = <<>> THEN Ok(mp)
  ELSE LET zs == ZoneInfoList(Head(nodes).type)
       IN  IF zs.err # "" THEN zs
           ELSE merge_nodes(merge_node(mp, Head(nodes), zs.val), Tail(nodes))

\* TimezoneMapFilesysCache._build on the downloaded document
build(nodes) ==
  merge_nodes([tz \in IanaZones |-> Put(EmptyDict, "001", {ZoneInfoObj(tz)})], nodes)

\* the elements of a frozenset in the order in which it is iterated:
\* the order of the hashes, which is fixed for the life of the process
IterSeq(order, S) ==
  LET keys == SelectSeq(order, LAMBDA k : \E e \in S : e.key = k)
  IN  [i \in 1..Len(keys) |-> CHOOSE e \in S : e.key = keys[i]]

\* TzMapCacheEncoder on the mapping: sets become lists, zones their keys
encode(order, mp) ==
  [n \in DOMAIN mp |->
     [t \in DOMAIN mp[n] |->
        LET l == IterSeq(order, mp[n][t]) IN [i \in 1..Len(l) |-> l[i].key]]]

\* TzMapCacheDecoder on the mapping: lists become frozensets of the strings
decode(js) ==
  [n \in DOMAIN js |->
     [t \in DOMAIN js[n] |-> {StrObj(js[n][t][i]) : i \in 1..Len(js[n][t])}]]

(***************************************************************************)
(* Zones: the lookups.                                                     *)
(***************************************************************************)
TerrNone == "<None>"

\* frozenset(sorted(matches)): sorting compares the elements, and ZoneInfo
\* objects have no order
frozenset_sorted(matches) ==
  IF Cardinality(matches) >= 2 /\ \E e \in matches : e.cls = "ZoneInfo"
  THEN Raise("TypeError")
  ELSE Ok(matches)

\* Zones.all
all(mp, zone, territory) ==
  IF territory = TerrNone \/ territory = "any"
  THEN LET name_to_territory_map == Get(mp, zone, EmptyDict)
       IN  frozenset_sorted(UNION {name_to_territory_map[t] :
                                     t \in DOMAIN name_to_territory_map})
  ELSE LET terr == IF territory = "primary" THEN "001" ELSE territory
       IN  frozenset_sorted(Get(Get(mp, zone, EmptyDict), terr, {}))

\* next(iter(matches))
next_iter(order, matches) ==
  IF matches = {} THEN Raise("StopIteration") ELSE Ok(IterSeq(order, matches)[1])

\* Zones.first
first(order, mp, zone, territory) ==
  LET matches == all(mp, zone, territory)
  IN  IF matches.err # "" THEN matches ELSE next_iter(order, matches.val)

\* Zones.only
only(order, mp, zone, territory) ==
  LET matches == all(mp, zone, territory)
  IN  IF matches.err # "" THEN matches
      ELSE IF Cardinality(matches.val) = 0 THEN Raise("MappedTzNotFoundError")
      ELSE IF Cardinality(matches.val) > 1 THEN Raise("MappedTzNotUniqueError")
      ELSE next_iter(order, matches.val)

\* TzUtils.offset_to_str
offset_to_str(mins) ==
  IF mins = 0 THEN "0"
  ELSE IF mins < 0 THEN ToString(mins)
  ELSE "+" \o ToString(mins)

\* TzUtils.get_offset_zone().zone_name, for the host's tm_gmtoff
get_offset_zone(gmtoff) == "Etc/" \o offset_to_str(gmtoff)

\* the two fallback stages shared by only_local and first_local, entered with
\* the zone found for the local name
local_fallbacks(order, mp, found, territory, sys, etc, probe, gmtoff) ==
  LET stage1 ==
        IF found.val = PyNone /\ sys /\ probe # TerrNone
        THEN first(order, mp, probe, territory)
        ELSE found
      stage2 ==
        IF stage1.err # "" THEN stage1
        ELSE IF stage1.val = PyNone /\ etc
        THEN ZoneInfo(get_offset_zone(gmtoff))
        ELSE stage1
  IN  stage2

\* Zones.only_local: tz is the local zone name, probe the zone name that
\* TzUtils.get_sys_zone() reports (or None)
only_local(order, mp, tz, territory, sys, etc, probe, gmtoff) ==
  LET found == only(order, mp, tz, territory)
  IN  IF found.err # "" THEN found
      ELSE local_fallbacks(order, mp, found, territory, sys, etc, probe, gmtoff)

\* Zones.first_local
first_local(order, mp, tz, territory, sys, etc, probe, gmtoff) ==
  LET found == first(order, mp, tz, territory)
  IN  IF found.err # "" THEN found
      ELSE local_fallbacks(order, mp, found, territory, sys, etc, probe, gmtoff)

\* what a lookup with self._map.setdefault(zone, {}) would leave in the mapping
map_after_setdefault(mp, zone) == Put(mp, zone, Get(mp, zone, EmptyDict))

\* what a lookup leaves in the mapping: self._map.get(zone, {}) reads only
map_after_get(mp, zone) == mp

(***************************************************************************)
(* SpecZones: a TimezoneMap gets its mapping on first use, from a build or *)
(* from the cache file that an earlier build left, and is then queried.    *)
(***************************************************************************)
HashOrders(S) ==
  {p \in [1..Cardinality(S) -> S] : \A i, j \in 1..Cardinality(S) : p[i] = p[j] => i = j}

ZoneNames == {"Etc/UTC", "UTC", "W. Europe Standard Time", "Nowhere Standard Time"}
LocalNames == {"UTC", "Nowhere Standard Time"}
Territories == {"primary", TerrNone, "any", "ZZ"}
LocalTerritories == {"primary"}
Probes == {TerrNone, "UTC"}
\* time.localtime().tm_gmtoff of the host
GmtOffsets == {3600}

NoCall ==
  [fn |-> "none", zone |-> "", territory |-> "", sys |-> FALSE, etc |-> FALSE,
   probe |-> "", doc |-> <<>>, again |-> FALSE]

Call(fn, zone, territory, sys, etc, probe) ==
  [fn |-> fn, zone |-> zone, territory |-> territory, sys |-> sys, etc |-> etc,
   probe |-> probe, doc |-> <<>>,
   again |-> (/\ fn \in {"all", "first", "only"}
              /\ zcall.fn = fn /\ zcall.zone = zone /\ zcall.territory = territory)]

InitZones ==
  /\ hashOrder \in HashOrders(IanaZones)
  /\ zmap = [ready |-> FALSE, mp |-> EmptyDict]
  /\ zcall = NoCall
  /\ zres = NoResult
  /\ x = NoValue /\ y = NoValue /\ op = "init" /\ res = NoResult
  /\ cache = <<>> /\ now = 0 /\ cfile = <<>> /\ ccall = <<>> /\ cres = NoResult

\* TimezoneMap._ensure with no fresh cache file: the mapping is built
EnsureBuilt ==
  /\ ~zmap.ready
  /\ \E doc \in CldrDocs :
       LET built == build(doc)
       IN  /\ zcall' = [NoCall EXCEPT !.fn = "build", !.doc = doc]
           /\ zres' = built
           /\ zmap' = IF built.err = "" THEN [ready |-> TRUE, mp |-> built.val] ELSE zmap
  /\ UNCHANGED <<hashOrder, taggedVars, cacheVars>>

\* TimezoneMap._ensure with a fresh cache file, which an earlier build wrote
EnsureCached ==
  /\ ~zmap.ready
  /\ \E doc \in CldrDocs, order \in HashOrders(IanaZones) :
       LET built == build(doc)
       IN  /\ built.err = ""
           /\ zcall' = [NoCall EXCEPT !.fn = "read"]
           /\ zres' = Ok(decode(encode(order, built.val)))
           /\ zmap' = [ready |-> TRUE, mp |-> decode(encode(order, built.val))]
  /\ UNCHANGED <<hashOrder, taggedVars, cacheVars>>

Lookup(fn, zone, territory, result) ==
  /\ zcall' = Call(fn, zone, territory, FALSE, FALSE, "")
  /\ zres' = result
  /\ zmap' = [zmap EXCEPT !.mp = map_after_get(zmap.mp, zone)]
  /\ UNCHANGED <<hashOrder, taggedVars, cacheVars>>

All ==
  /\ zmap.ready
  /\ \E zone \in ZoneNames, territory \in Territories :
       Lookup("all", zone, territory, all(zmap.mp, zone, territory))

First ==
  /\ zmap.ready
  /\ \E zone \in ZoneNames, territory \in Territories :
       Lookup("first", zone, territory, first(hashOrder, zmap.mp, zone, territory))

Only ==
  /\ zmap.ready
  /\ \E zone \in ZoneNames, territory \in Territories :
       Lookup("only", zone, territory, only(hashOrder, zmap.mp, zone, territory))

OnlyLocal ==
  /\ zmap.ready
  /\ \E tz \in LocalNames, territory \in LocalTerritories, sys \in BOOLEAN,
        etc \in BOOLEAN, probe \in Probes, gmtoff \in GmtOffsets :
       /\ zcall' = Call("only_local", tz, territory, sys, etc, probe)
       /\ zres' = only_local(hashOrder, zmap.mp, tz, territory, sys, etc, probe, gmtoff)
       /\ zmap' = [zmap EXCEPT !.mp = map_after_get(zmap.mp, tz)]
  /\ UNCHANGED <<hashOrder, taggedVars, cacheVars>>

FirstLocal ==
  /\ zmap.ready
  /\ \E tz \in LocalNames, territory \in LocalTerritories, sys \in BOOLEAN,
        etc \in BOOLEAN, probe \in Probes, gmtoff \in GmtOffsets :
       /\ zcall' = Call("first_local", tz, territory, sys, etc, probe)
       /\ zres' = first_local(hashOrder, zmap.mp, tz, territory, sys, etc, probe, gmtoff)
       /\ zmap' = [zmap EXCEPT !.mp = map_after_get(zmap.mp, tz)]
  /\ UNCHANGED <<hashOrder, taggedVars, cacheVars>>

NextZones ==
  EnsureBuilt \/ EnsureCached \/ All \/ First \/ Only \/ OnlyLocal \/ FirstLocal

SpecZones == InitZones /\ [][NextZones]_vars

(***************************************************************************)
(* TimezoneMapFilesysCache: the cache file, its age and the rebuild.       *)
(***************************************************************************)
\* datetime.isoformat() of a timestamp, and datetime.fromisoformat() of it
isoformat(t) == [iso |-> t]
fromisoformat(s) == s.iso

\* JSON values at the top level of the cache document
JsonStr(s) == [type |-> "str", v |-> s]
JsonObject(d) == [type |-> "object", v |-> d]

\* the states of the cache file
NoFile == [exists |-> FALSE, json |-> FALSE, doc |-> EmptyDict]
TextFile == [exists |-> TRUE, json |-> FALSE, doc |-> EmptyDict]
JsonFile(doc) == [exists |-> TRUE, json |-> TRUE, doc |-> doc]

\* TzMapCacheEncoder.encode(dict(downloadTimestamp=..., mapping=...))
encode_saved(order, timestamp, mapping) ==
  Put(Put(EmptyDict, "downloadTimestamp", JsonStr(isoformat(timestamp))),
      "mapping", JsonObject(encode(order, mapping)))

\* TzMapCacheDecoder.object_hook on a value of the top-level object
object_hook(val) ==
  IF val.type = "str" THEN fromisoformat(val.v) ELSE decode(val.v)

\* TzMapCacheDecoder().decode(txt)
decode_text(file) ==
  IF ~file.json THEN Raise("JSONDecodeError")
  ELSE Ok([k \in DOMAIN file.doc |-> object_hook(file.doc[k])])

ReadNone == [err |-> "", none |-> TRUE, val |-> EmptyDict]
ReadError(e) == [err |-> e, none |-> FALSE, val |-> EmptyDict]
ReadOk(mp) == [err |-> "", none |-> FALSE, val |-> mp]

\* _read with the staleness test  >=  in place of  >
read_stale_at_limit(self, file, t) ==
  IF ~self.path \/ ~file.exists THEN ReadNone
  ELSE LET read == decode_text(file)
       IN  IF read.err # "" THEN ReadError(read.err)
           ELSE IF "downloadTimestamp" \notin DOMAIN read.val THEN ReadError("KeyError")
           ELSE IF t - read.val["downloadTimestamp"] >= self.expiration_mins * 60
           THEN ReadNone
           ELSE IF "mapping" \notin DOMAIN read.val THEN ReadError("KeyError")
           ELSE ReadOk(read.val["mapping"])

\* TimezoneMapFilesysCache._read at time t
read(self, file, t) ==
  IF ~self.path \/ ~file.exists THEN ReadNone
  ELSE LET read == decode_text(file)
       IN  IF read.err # "" THEN ReadError(read.err)
           ELSE IF "downloadTimestamp" \notin DOMAIN read.val THEN ReadError("KeyError")
           ELSE IF t - read.val["downloadTimestamp"] > self.expiration_mins * 60
           THEN ReadNone
           ELSE IF "mapping" \notin DOMAIN read.val THEN ReadError("KeyError")
           ELSE ReadOk(read.val["mapping"])

\* _build with _download and Xml.fromstring: what the source gives at the call
download_and_build(source) ==
  IF source.fetch # "ok" THEN Raise(source.fetch)
  ELSE IF ~source.xml THEN Raise("ParseError")
  ELSE build(source.nodes)

\* _save that opens the file for writing before it builds
save_truncating(self, file, source, order, t) ==
  LET built == download_and_build(source)
  IN  IF built.err # ""
      THEN [res |-> built, file |-> IF self.path THEN TextFile ELSE file]
      ELSE [res |-> built,
            file |-> IF self.path THEN JsonFile(encode_saved(order, t, built.val))
                     ELSE file]

\* TimezoneMapFilesysCache._save, the build ending at time t
save(self, file, source, order, t) ==
  LET built == download_and_build(source)
  IN  IF built.err # "" THEN [res |-> built, file |-> file]
      ELSE [res |-> built,
            file |-> IF self.path THEN JsonFile(encode_saved(order, t, built.val))
                     ELSE file]

\* TimezoneMapFilesysCache.get, called at time t0, a rebuild ending at time t
get(self, file, source, order, t0, t) ==
  LET r == read(self, file, t0)
  IN  IF r.err # "" THEN [res |-> Raise(r.err), file |-> file, rebuilt |-> FALSE]
      ELSE IF ~r.none THEN [res |-> Ok(r.val), file |-> file, rebuilt |-> FALSE]
      ELSE LET saved == save(self, file, source, order, t)
           IN  [res |-> saved.res, file |-> saved.file, rebuilt |-> TRUE]

\* download() that goes through get()
download_through_get(self, file, source, order, t0, t) ==
  LET got == get(self, file, source, order, t0, t)
  IN  [res |-> IF got.res.err # "" THEN got.res ELSE Ok(PyNone),
       file |-> got.file, rebuilt |-> got.rebuilt]

\* TimezoneMapFilesysCache.download, the build ending at time t
download(self, file, source, order, t0, t) ==
  LET saved == save(self, file, source, order, t)
  IN  [res |-> IF saved.res.err # "" THEN saved.res ELSE Ok(PyNone),
       file |-> saved.file, rebuilt |-> TRUE]

(***************************************************************************)
(* SpecCache: one cache object, the clock, the file, and calls of get()    *)
(* and download() with whatever the CLDR source gives at that moment.      *)
(***************************************************************************)
CacheDocs ==
  {<<>>,
   <<[other |-> "UTC", territory |-> "ZZ", type |-> <<"Etc/UTC", "Etc/GMT">>]>>,
   <<[other |-> "W. Europe Standard Time", territory |-> "DE",
      type |-> <<"Europe/Busingen">>]>>}

NoSource == [fetch |-> "none", xml |-> FALSE, nodes |-> <<>>]

CacheSources ==
  {[fetch |-> "URLError", xml |-> FALSE, nodes |-> <<>>],
   [fetch |-> "ok", xml |-> FALSE, nodes |-> <<>>]}
    \cup {[fetch |-> "ok", xml |-> TRUE, nodes |-> d] : d \in CacheDocs}

ExpirationMins == {0, 1}
TimeSteps == {30}
BuildTimes == {0, 30}

\* the files that a configured location can hold when the cache is made
InitialFiles(order) ==
  {NoFile, TextFile,
   JsonFile(Put(EmptyDict, "mapping", JsonObject(encode(order, build(<<>>).val)))),
   JsonFile(Put(EmptyDict, "downloadTimestamp", JsonStr(isoformat(0)))),
   JsonFile(encode_saved(order, 0, build(<<>>).val))}

InitCache ==
  /\ hashOrder \in HashOrders(IanaZones)
  /\ cache \in [path : BOOLEAN, expiration_mins : ExpirationMins]
  /\ now = 0
  /\ cfile \in IF cache.path THEN InitialFiles(hashOrder) ELSE {NoFile}
  /\ ccall = [fn |-> "none", rebuilt |-> FALSE, source |-> NoSource]
  /\ cres = NoResult
  /\ x = NoValue /\ y = NoValue /\ op = "init" /\ res = NoResult
  /\ zmap = <<>> /\ zcall = <<>> /\ zres = NoResult

\* time passes
Advance ==
  /\ \E d \in TimeSteps : now + d <= MaxNow /\ now' = now + d
  /\ UNCHANGED <<cache, cfile, ccall, cres, hashOrder, zmap, zcall, zres, taggedVars>>

CacheCall(fn, out, source, t) ==
  /\ ccall' = [fn |-> fn, rebuilt |-> out.rebuilt,
               source |-> IF out.rebuilt THEN source ELSE NoSource]
  /\ cres' = out.res
  /\ cfile' = out.file
  /\ now' = IF out.rebuilt THEN t ELSE now
  /\ UNCHANGED <<cache, hashOrder, zmap, zcall, zres, taggedVars>>

CacheGet ==
  \E source \in CacheSources, d \in BuildTimes :
    /\ now + d <= MaxNow
    /\ CacheCall("get", get(cache, cfile, source, hashOrder, now, now + d), source, now + d)

CacheDownload ==
  \E source \in CacheSources, d \in BuildTimes :
    /\ now + d <= MaxNow
    /\ CacheCall("download", download(cache, cfile, source, hashOrder, now, now + d),
                 source, now + d)

NextCache == Advance \/ CacheGet \/ CacheDownload

SpecCache == InitCache /\ [][NextCache]_vars

(***************************************************************************)
(* ZonedDatetime: construction, formatting and parsing.  A formatted       *)
(* datetime is kept as the parts the code handles: the wall reading, the   *)
(* separator and decimal mark written, the characters of the UTC offset,   *)
(* and the zone between the brackets.                                      *)
(***************************************************************************)
DigitChars == <<"0", "1", "2", "3", "4", "5", "6", "7", "8", "9">>
IsDigit(c) == \E n \in 0..9 : DigitChars[n + 1] = c
DigitVal(c) == CHOOSE n \in 0..9 : DigitChars[n + 1] = c
Abs(n) == IF n < 0 THEN 0 - n ELSE n

\* str(n) of a natural, as characters
RECURSIVE str(_)
str(n) == IF n < 10 THEN <<DigitChars[n + 1]>>
          ELSE str(n \div 10) \o <<DigitChars[(n % 10) + 1]>>

\* s.zfill(width)
zfill(s, width) ==
  IF Len(s) < width THEN [i \in 1..(width - Len(s)) |-> "0"] \o s ELSE s

\* s.replace(old, new), on characters
RECURSIVE replace(_, _, _)
replace(s, old, new) ==
  IF Len(s) < Len(old) \/ Len(old) = 0
  THEN s
  ELSE IF SubSeq(s, 1, Len(old)) = old
       THEN new \o replace(SubSeq(s, Len(old) + 1, Len(s)), old, new)
       ELSE <<s[1]>> \o replace(Tail(s), old, new)

ZuluText == <<"Z">>
ZeroOffsetText == <<"+", "0", "0", ":", "0", "0">>
\* the sign offset_str writes for a negative offset (U+2212, not the hyphen)
MinusSign == "U+2212"

\* the UTC offset as datetime.isoformat writes it: sign, HH:MM, and :SS when
\* the offset has seconds
format_offset(off) ==
  LET a == Abs(off)
      hh == zfill(str(a \div 3600), 2)
      mm == zfill(str((a % 3600) \div 60), 2)
      ss == zfill(str(a % 60), 2)
  IN  <<IF off < 0 THEN "-" ELSE "+">> \o hh \o <<":">> \o mm
        \o (IF a % 60 # 0 THEN <<":">> \o ss ELSE <<>>)

\* dt.isoformat(timespec='microseconds')
isoformat_micros(dt) ==
  [sec |-> dt.sec, us |-> dt.us, sep |-> "T", dec |-> ".",
   off |-> IF dt.tz = Naive THEN <<>> ELSE format_offset(UtcOffset(dt.tz, dt))]

\* the characters are a UTC offset datetime.fromisoformat reads
IsOffset(off) ==
  /\ Len(off) \in {6, 9}
  /\ off[1] \in {"+", "-"}
  /\ \A i \in 2..Len(off) : IF i \in {4, 7} THEN off[i] = ":" ELSE IsDigit(off[i])

OffsetSeconds(off) ==
  LET num(i) == 10 * DigitVal(off[i]) + DigitVal(off[i + 1])
      a == 3600 * num(2) + 60 * num(5) + (IF Len(off) = 9 THEN num(8) ELSE 0)
  IN  IF off[1] = "-" THEN 0 - a ELSE a

\* datetime.fromisoformat: naive when the text has no offset
datetime_fromisoformat(raw) ==
  IF raw.dec # "." \/ (raw.off # <<>> /\ ~IsOffset(raw.off))
  THEN Raise("ValueError")
  ELSE Ok([sec |-> raw.sec, us |-> raw.us, aware |-> raw.off # <<>>,
           utcoffset |-> IF raw.off = <<>> THEN 0 ELSE OffsetSeconds(raw.off)])

\* the offset of a zone at a UTC instant
OffsetAt(tz, u) ==
  IF tz = ZiCet
  THEN (IF u + 3600 < 1 THEN 3600 ELSE 7200)
  ELSE UtcOffset(tz, [sec |-> 0, us |-> 0, tz |-> tz])

\* d.astimezone(zone); a naive d is read as a wall reading of the system's
\* local zone
astimezone(d, zone, local) ==
  LET off == IF d.aware THEN d.utcoffset
             ELSE UtcOffset(local, [sec |-> d.sec, us |-> d.us, tz |-> local])
      u == d.sec - off
  IN  [sec |-> u + OffsetAt(zone, u), us |-> d.us, tz |-> zone]

\* str(zone)
ZoneStr(tz) ==
  CASE tz = TzUtc -> "UTC"
    [] tz = FixedCet -> "CET"
    [] OTHER -> tz

\* the keys ZoneInfo(key) finds
TzKeys == {ZiUtc, ZiEtcUtc, ZiCet, ZiKolkata, ZiLosAngeles, ZiMonrovia}

\* AbstractZonedDatetime.__post_init__ on the fields of a ZonedDatetime
ZonedDatetime(dt, zone, source) ==
  IF dt.tz = Naive
  THEN Raise("DatetimeMissingZoneError")
  ELSE IF TzName(dt.tz, dt) # TzName(zone, dt)
       THEN Raise("ZoneMismatchError")
       ELSE Ok([dt |-> dt, zone |-> zone, source |-> source])

\* ZonedDatetime.of
of(dt, zone, source) == ZonedDatetime(dt, zone, source)

\* AbstractZonedDatetime.offset_str
offset_str(self) ==
  LET offset == UtcOffset(self.zone, self.dt)
      s == Abs(offset)
      sgn == IF offset < 0 THEN MinusSign ELSE "+"
      hours == s \div 3600
      minutes == (s \div 60) % 60
      seconds == s % 3600
      h == zfill(str(hours), 2)
      m == zfill(str(minutes), 2)
      ss == zfill(str(seconds), 2)
  IN  IF s = 0
      THEN ZuluText
      ELSE IF seconds > 0
           THEN <<sgn>> \o h \o <<":">> \o m \o <<":">> \o ss
           ELSE <<sgn>> \o h \o <<":">> \o m

\* AbstractZonedDatetime.iso_with_zone
iso_with_zone(self) ==
  LET z == ZoneStr(self.zone)
      iso == isoformat_micros(self.dt)
  IN  [raw_dt |-> [iso EXCEPT !.off = replace(@, ZeroOffsetText, ZuluText)],
       zone |-> IF z = "UTC" THEN "Etc/UTC" ELSE z,
       bracketed |-> TRUE]

\* AbstractZonedDatetime.utc
abstract_utc(self) == ZonedDatetime(AsUtc(self.dt), ZiUtc, self.source)

\* ZonedDatetime.parse with the Z of the text dropped instead of replaced
parse_dropping_z(s, local) ==
  IF ~s.bracketed
  THEN Raise("DatetimeParseError")
  ELSE IF s.zone \notin TzKeys
       THEN Raise("ZoneInfoNotFoundError")
       ELSE LET raw == [s.raw_dt EXCEPT !.off = replace(@, ZuluText, <<>>),
                                        !.sep = IF @ = " " THEN "T" ELSE @,
                                        !.dec = IF @ = "," THEN "." ELSE @]
                d == datetime_fromisoformat(raw)
            IN  IF d.err # ""
                THEN d
                ELSE ZonedDatetime(astimezone(d.val, s.zone, local), s.zone, "None")

\* ZonedDatetime.parse; local is the zone of the system the code runs on
parse(s, local) ==
  IF ~s.bracketed
  THEN Raise("DatetimeParseError")
  ELSE IF s.zone \notin TzKeys
       THEN Raise("ZoneInfoNotFoundError")
       ELSE LET raw == [s.raw_dt EXCEPT !.off = replace(@, ZuluText, ZeroOffsetText),
                                        !.sep = IF @ = " " THEN "T" ELSE @,
                                        !.dec = IF @ = "," THEN "." ELSE @]
                d == datetime_fromisoformat(raw)
            IN  IF d.err # ""
                THEN d
                ELSE ZonedDatetime(astimezone(d.val, s.zone, local), s.zone, "None")

\* ZonedDatetime.__add__ and __sub__, the timedelta in microseconds
add(self, delta) == ZonedDatetime(DatetimeAdd(self.dt, delta), self.zone, self.source)
sub(self, delta) == ZonedDatetime(DatetimeAdd(self.dt, 0 - delta), self.zone, self.source)

(***************************************************************************)
(* The inputs: every ZonedDatetime the constructor accepts over a few      *)
(* readings and zones, the datetimes and texts given to of and parse.      *)
(***************************************************************************)
ZonedTzInfos ==
  {TzUtc, ZiEtcUtc, ZiUtc, ZiCet, FixedCet, ZiKolkata, ZiLosAngeles, ZiMonrovia}
ZonedZones == TzKeys \cup {TzUtc}
ZonedInputs ==
  {r.val : r \in {q \in {ZonedDatetime(dt, z, "None") :
                           dt \in [sec : Seconds, us : {0, 15}, tz : ZonedTzInfos],
                           z \in ZonedZones} : q.err = ""}}
GivenDatetimes == [sec : {0}, us : {15}, tz : {Naive, ZiCet, TzUtc}]
GivenZones == {ZiCet, ZiEtcUtc}
OffsetTexts ==
  {<<>>, ZuluText, ZeroOffsetText, format_offset(3600), format_offset(-2670),
   <<"+", "1">>}
RawTexts ==
  {[sec |-> 0, us |-> 15, sep |-> st[1], dec |-> st[2], off |-> off] :
     st \in {<<"T", ".">>, <<" ", ",">>}, off \in OffsetTexts}
Texts ==
  [raw_dt : RawTexts, zone : {ZiCet, ZiEtcUtc, "Nowhere/Land"}, bracketed : {TRUE}]
    \cup [raw_dt : RawTexts, zone : {""}, bracketed : {FALSE}]
LocalZones == {ZiEtcUtc, ZiCet}
Deltas == {1, 1000000}

(***************************************************************************)
(* SpecZoned: a zoned datetime x is given; one is constructed, parsed,     *)
(* formatted and parsed back, moved, or its offset is written.             *)
(***************************************************************************)
InitZoned ==
  /\ x \in ZonedInputs
  /\ y = NoValue
  /\ op = "init"
  /\ res = NoResult
  /\ hashOrder = <<>> /\ zmap = <<>> /\ zcall = <<>> /\ zres = NoResult
  /\ cache = <<>> /\ now = 0 /\ cfile = <<>> /\ ccall = <<>> /\ cres = NoResult

Of ==
  /\ \E dt \in GivenDatetimes, zone \in GivenZones :
       /\ y' = [dt |-> dt, zone |-> zone]
       /\ res' = of(dt, zone, "None")
  /\ op' = "of"
  /\ UNCHANGED <<x, zoneVars, cacheVars>>

Parse ==
  /\ \E s \in Texts, local \in LocalZones :
       /\ y' = [s |-> s, local |-> local]
       /\ res' = parse(s, local)
  /\ op' = "parse"
  /\ UNCHANGED <<x, zoneVars, cacheVars>>

RoundTrip ==
  /\ \E local \in LocalZones :
       /\ y' = [s |-> iso_with_zone(x), local |-> local]
       /\ res' = parse(iso_with_zone(x), local)
  /\ op' = "roundtrip"
  /\ UNCHANGED <<x, zoneVars, cacheVars>>

OffsetStr ==
  /\ y' = NoValue
  /\ res' = Ok(offset_str(x))
  /\ op' = "offset_str"
  /\ UNCHANGED <<x, zoneVars, cacheVars>>

Add ==
  /\ \E delta \in Deltas :
       /\ y' = [delta |-> delta]
       /\ res' = add(x, delta)
  /\ op' = "add"
  /\ UNCHANGED <<x, zoneVars, cacheVars>>

Sub ==
  /\ \E delta \in Deltas :
       /\ y' = [delta |-> delta]
       /\ res' = sub(x, delta)
  /\ op' = "sub"
  /\ UNCHANGED <<x, zoneVars, cacheVars>>

Utc ==
  /\ y' = NoValue
  /\ res' = abstract_utc(x)
  /\ op' = "utc"
  /\ UNCHANGED <<x, zoneVars, cacheVars>>

NextZoned == Of \/ Parse \/ RoundTrip \/ OffsetStr \/ Add \/ Sub \/ Utc

SpecZoned == InitZoned /\ [][NextZoned]_vars

(***************************************************************************)
(* TzUtils: the system zone probe and the NTP clock.  Keywords and names   *)
(* are sequences of characters.                                            *)
(***************************************************************************)
LowerLetters == <<"a", "b", "c", "d", "e", "f", "g", "h", "i", "j", "k", "l", "m", "n", "o", "p", "q", "r", "s", "t", "u", "v", "w", "x", "y", "z">>
UpperLetters == <<"A", "B", "C", "D", "E", "F", "G", "H", "I", "J", "K", "L", "M", "N", "O", "P", "Q", "R", "S", "T", "U", "V", "W", "X", "Y", "Z">>

\* s.lower()
lower(s) ==
  [i \in 1..Len(s) |->
     IF \E k \in 1..26 : UpperLetters[k] = s[i]
     THEN LowerLetters[CHOOSE k \in 1..26 : UpperLetters[k] = s[i]]
     ELSE s[i]]

\* s.upper()
upper(s) ==
  [i \in 1..Len(s) |->
     IF \E k \in 1..26 : LowerLetters[k] = s[i]
     THEN UpperLetters[CHOOSE k \in 1..26 : LowerLetters[k] = s[i]]
     ELSE s[i]]

\* s.strip(), for blanks
RECURSIVE strip(_)
strip(s) ==
  IF s = <<>> THEN s
  ELSE IF Head(s) = " " THEN strip(Tail(s))
  ELSE IF s[Len(s)] = " " THEN strip(SubSeq(s, 1, Len(s) - 1))
  ELSE s

Antarctica == <<"a", "n", "t", "a", "r", "c", "t", "i", "c", "a">>
Asia == <<"a", "s", "i", "a">>
Europe == <<"e", "u", "r", "o", "p", "e">>
NorthAmerica == <<"n", "o", "r", "t", "h", "-", "a", "m", "e", "r", "i", "c", "a">>
Oceana == <<"o", "c", "e", "a", "n", "a">>
Oceania == <<"o", "c", "e", "a", "n", "i", "a">>
SouthAmerica == <<"s", "o", "u", "t", "h", "-", "a", "m", "e", "r", "i", "c", "a">>
Africa == <<"a", "f", "r", "i", "c", "a">>
PoolSuffix == <<".", "p", "o", "o", "l", ".", "n", "t", "p", ".", "o", "r", "g">>

\* NtpContinents.known
known == {Antarctica, Asia, Europe, NorthAmerica, Oceana, SouthAmerica}

\* NtpContinents.of
NtpContinents_of(name) ==
  LET n == replace(replace(lower(name), <<" ">>, <<"-">>), <<"_">>, <<"-">>)
  IN  IF n \notin known THEN Raise("LookupError") ELSE Ok(n)

ClientSent == <<"c", "l", "i", "e", "n", "t", "_", "s", "e", "n", "t">>
ServerReceived == <<"s", "e", "r", "v", "e", "r", "_", "r", "e", "c", "e", "i", "v", "e", "d">>
ServerSent == <<"s", "e", "r", "v", "e", "r", "_", "s", "e", "n", "t">>
ClientReceived == <<"c", "l", "i", "e", "n", "t", "_", "r", "e", "c", "e", "i", "v", "e", "d">>

\* the members of NtpClockType, by _name_
NtpClockTypes == {ClientSent, ServerReceived, ServerSent, ClientReceived}

\* NtpClockType.name
NtpClockType_name(member) == replace(member, <<"_">>, <<"-">>)

\* NtpClockType.of, for a string
NtpClockType_of(clock) ==
  LET n == replace(replace(strip(lower(clock)), <<"-">>, <<"_">>), <<" ">>, <<"_">>)
  IN  IF n \notin NtpClockTypes THEN Raise("KeyError") ELSE Ok(n)

\* the dataclasses, with the fields in the order of their declaration
SysTzInfo(zone_name, offset_mins) ==
  [zone_name |-> zone_name, offset_mins |-> offset_mins]

ClockInfo(adjustable, implementation, monotonic, resolution, is_ntp, server, is_epoch) ==
  [adjustable |-> adjustable, implementation |-> implementation,
   monotonic |-> monotonic, resolution |-> resolution, is_ntp |-> is_ntp,
   server |-> server, is_epoch |-> is_epoch]

NtpTime(server, stratum, root_dispersion, root_delay, precision, client_sent, server_received, server_sent, client_received) ==
  [server |-> server, stratum |-> stratum, root_dispersion |-> root_dispersion,
   root_delay |-> root_delay, precision |-> precision, client_sent |-> client_sent,
   server_received |-> server_received, server_sent |-> server_sent,
   client_received |-> client_received]

Clock(name, const, info) == [name |-> name, const |-> const, info |-> info]
ClockTime(nanos, clock) == [nanos |-> nanos, clock |-> clock]

\* TzUtils.round_s_to_ns: the seconds are given in half nanoseconds, and a
\* half is rounded down
round_s_to_ns(halves) == halves \div 2

\* TzUtils.get_ntp_time: the NtpTime, and the hosts a request was sent to
get_ntp_time(server, response) ==
  LET c == NtpContinents_of(server)
      host == c.val \o PoolSuffix
  IN  IF c.err # ""
      THEN [res |-> c, requests |-> <<>>]
      ELSE [res |-> Ok(NtpTime(host,
                               response.stratum,
                               response.precision,
                               response.root_dispersion,
                               response.root_delay,
                               response.orig_timestamp,
                               response.recv_timestamp,
                               response.tx_timestamp,
                               response.dest_timestamp)),
            requests |-> <<host>>]

\* getattr(data, attribute)
getattr(data, attribute) ==
  CASE attribute = ClientSent -> data.client_sent
    [] attribute = ServerReceived -> data.server_received
    [] attribute = ServerSent -> data.server_sent
    [] attribute = ClientReceived -> data.client_received

\* TzUtils.get_ntp_clock
get_ntp_clock(server, attribute, response) ==
  LET member == NtpClockType_of(attribute)
      attr == NtpClockType_name(member.val)
      got == get_ntp_time(server, response)
      data == got.res.val
      epoch == round_s_to_ns(getattr(data, replace(attr, <<"-">>, <<"_">>)))
      clock == Clock(server \o <<":">> \o attr, "None",
                     ClockInfo(TRUE, <<"n", "t", "p", ":">> \o str(data.stratum),
                               FALSE, data.precision, TRUE, server, TRUE))
  IN  IF member.err # "" THEN [res |-> member, requests |-> <<>>]
      ELSE IF got.res.err # "" THEN got
      ELSE [res |-> Ok(ClockTime(epoch, clock)), requests |-> got.requests]

\* /etc/timezone: no file, a file that cannot be read, or a file with a text
NoTimezoneFile == [exists |-> FALSE, readable |-> FALSE, text |-> <<>>]
UnreadableTimezoneFile == [exists |-> TRUE, readable |-> FALSE, text |-> <<>>]
TimezoneFile(text) == [exists |-> TRUE, readable |-> TRUE, text |-> text]
\* an Optional[str]: None, or a string
NoStr == [some |-> FALSE, text |-> <<>>]
SomeStr(text) == [some |-> TRUE, text |-> text]

\* TzUtils._get_nix_zone comparing the text of the file as it is read
get_nix_zone_unstripped(file, from_env) ==
  LET from_path == IF file.exists /\ file.readable THEN SomeStr(file.text) ELSE NoStr
  IN  IF from_env.some /\ from_path.some /\ from_env # from_path
      THEN Raise("ZoneMismatchError")
      ELSE IF from_path.some THEN Ok(SysTzInfo(from_path.text, "None"))
      ELSE IF from_env.some THEN Ok(SysTzInfo(from_env.text, "None"))
      ELSE Ok(PyNone)

\* TzUtils._get_nix_zone; from_env is os.environ.get("TZ")
get_nix_zone(file, from_env) ==
  LET from_path == IF file.exists /\ file.readable
                   THEN SomeStr(strip(file.text))
                   ELSE NoStr
  IN  IF from_env.some /\ from_path.some /\ from_env # from_path
      THEN Raise("ZoneMismatchError")
      ELSE IF from_path.some THEN Ok(SysTzInfo(from_path.text, "None"))
      ELSE IF from_env.some THEN Ok(SysTzInfo(from_env.text, "None"))
      ELSE Ok(PyNone)

(***************************************************************************)
(* The inputs: the machine's /etc/timezone and $TZ, the answer of the NTP  *)
(* server, and the keywords and attributes given.                          *)
(***************************************************************************)
ZoneTexts == {<<"C", "E", "T">>, <<"U", "T", "C">>}
TimezoneFiles ==
  {NoTimezoneFile, UnreadableTimezoneFile, TimezoneFile(<<>>)}
    \cup {TimezoneFile(t) : t \in ZoneTexts}
    \cup {TimezoneFile(t \o <<" ">>) : t \in ZoneTexts}
    \cup {TimezoneFile(<<" ">>)}
Envs == {NoStr} \cup {SomeStr(t) : t \in ZoneTexts}
\* timestamps in half nanoseconds; precision, root delay and root dispersion
\* of the response are numbers that differ from each other
Responses ==
  [stratum : {1, 2}, precision : {-23}, root_dispersion : {5}, root_delay : {30},
   orig_timestamp : {2001}, recv_timestamp : {4002}, tx_timestamp : {6004},
   dest_timestamp : {8007}]
\* str.capitalize for a keyword in lower case
capitalize(k) == upper(<<Head(k)>>) \o Tail(k)
Keywords ==
  {Antarctica, upper(Asia), capitalize(Europe), NorthAmerica,
   capitalize(replace(NorthAmerica, <<"-">>, <<" ">>)),
   upper(replace(NorthAmerica, <<"-">>, <<"_">>)),
   Oceania, upper(Oceania), Oceana,
   replace(SouthAmerica, <<"-">>, <<" ">>), Africa}
\* the keywords get_ntp_clock is called with
ClockKeywords ==
  {NorthAmerica, capitalize(replace(NorthAmerica, <<"-">>, <<" ">>)), Africa}
Attributes ==
  NtpClockTypes \cup {upper(NtpClockType_name(ClientReceived)),
                      <<" ">> \o replace(ServerSent, <<"_">>, <<" ">>),
                      <<"b", "o", "g", "u", "s">>}

(***************************************************************************)
(* SpecClock: on a machine with a zone file, $TZ and an NTP server that    *)
(* answers, the system zone is probed and the NTP time and clock are got.  *)
(***************************************************************************)
InitClock ==
  /\ x \in [file : TimezoneFiles, env : Envs, response : Responses]
  /\ y = NoValue
  /\ op = "init"
  /\ res = NoResult
  /\ hashOrder = <<>> /\ zmap = <<>> /\ zcall = <<>> /\ zres = NoResult
  /\ cache = <<>> /\ now = 0 /\ cfile = <<>> /\ ccall = <<>> /\ cres = NoResult

GetNixZone ==
  /\ y' = NoValue
  /\ res' = get_nix_zone(x.file, x.env)
  /\ op' = "get_nix_zone"
  /\ UNCHANGED <<x, zoneVars, cacheVars>>

GetNtpTime ==
  /\ \E server \in Keywords :
       LET got == get_ntp_time(server, x.response)
       IN  /\ y' = [server |-> server, requests |-> got.requests]
           /\ res' = got.res
  /\ op' = "get_ntp_time"
  /\ UNCHANGED <<x, zoneVars, cacheVars>>

GetNtpClock ==
  /\ \E server \in ClockKeywords, attribute \in Attributes :
       LET got == get_ntp_clock(server, attribute, x.response)
       IN  /\ y' = [server |-> server, attribute |-> attribute,
                    requests |-> got.requests]
           /\ res' = got.res
  /\ op' = "get_ntp_clock"
  /\ UNCHANGED <<x, zoneVars, cacheVars>>

NextClock == GetNixZone \/ GetNtpTime \/ GetNtpClock

SpecClock == InitClock /\ [][NextClock]_vars

(***************************************************************************)
(* The process-wide default NTP continent, and the calls that leave the    *)
(* server out.                                                             *)
(***************************************************************************)
MaxSets == 2

\* SuretimeGlobals.NTP_SERVER as the class is defined
InitialNtpServer == NorthAmerica

\* suretime.get_ntp_continent
get_ntp_continent(globals) == globals.NTP_SERVER

\* suretime.set_ntp_continent
set_ntp_continent(globals, code) == [globals EXCEPT !.NTP_SERVER = code]

\* TzUtils.get_ntp_clock(): the default of server is the value the global had
\* when the def statement ran
get_ntp_clock_default(globals, response) ==
  get_ntp_clock(globals.bound_default, ClientSent, response)

\* Clocks.ntp(): server defaults to "europe"
Clocks_ntp_default(globals, response) == get_ntp_clock(Europe, ClientSent, response)

\* TimezoneMap.clocks: a copy of the mapping
TimezoneMap_clocks == [cls |-> "dict"]

\* suretime.clock.ntp(): attribute ntp of suretime.clock, called
module_clock_ntp(globals, response) ==
  IF TimezoneMap_clocks.cls = "Clocks"
  THEN Clocks_ntp_default(globals, response)
  ELSE [res |-> Raise("AttributeError"), requests |-> <<>>]

\* the continents set_ntp_continent is called with
SetCodes == {Antarctica, Asia, Europe, SouthAmerica}

(***************************************************************************)
(* SpecNtpDefault: the continent is set and read, and an NTP sample is     *)
(* asked without a server.  x holds the global, the default bound in the   *)
(* signatures, and the continents set so far.                              *)
(***************************************************************************)
InitNtpDefault ==
  /\ x = [NTP_SERVER |-> InitialNtpServer, bound_default |-> InitialNtpServer,
          sets |-> <<>>]
  /\ y = NoValue
  /\ op = "init"
  /\ res = NoResult
  /\ hashOrder = <<>> /\ zmap = <<>> /\ zcall = <<>> /\ zres = NoResult
  /\ cache = <<>> /\ now = 0 /\ cfile = <<>> /\ ccall = <<>> /\ cres = NoResult

SetNtpContinent ==
  /\ Len(x.sets) < MaxSets
  /\ \E code \in SetCodes :
       x' = [set_ntp_continent(x, code) EXCEPT !.sets = Append(@, code)]
  /\ y' = NoValue
  /\ res' = Ok(PyNone)
  /\ op' = "set_ntp_continent"
  /\ UNCHANGED <<zoneVars, cacheVars>>

GetNtpContinent ==
  /\ y' = NoValue
  /\ res' = Ok(get_ntp_continent(x))
  /\ op' = "get_ntp_continent"
  /\ UNCHANGED <<x, zoneVars, cacheVars>>

GetNtpClockDefault ==
  /\ \E response \in Responses :
       LET got == get_ntp_clock_default(x, response)
       IN  y' = [requests |-> got.requests] /\ res' = got.res
  /\ op' = "TzUtils.get_ntp_clock"
  /\ UNCHANGED <<x, zoneVars, cacheVars>>

ClocksNtp ==
  /\ \E response \in Responses :
       LET got == Clocks_ntp_default(x, response)
       IN  y' = [requests |-> got.requests] /\ res' = got.res
  /\ op' = "Clocks.ntp"
  /\ UNCHANGED <<x, zoneVars, cacheVars>>

ModuleClockNtp ==
  /\ \E response \in Responses :
       LET got == module_clock_ntp(x, response)
       IN  y' = [requests |-> got.requests] /\ res' = got.res
  /\ op' = "suretime.clock.ntp"
  /\ UNCHANGED <<x, zoneVars, cacheVars>>

NextNtpDefault ==
  SetNtpContinent \/ GetNtpContinent \/ GetNtpClockDefault \/ ClocksNtp \/ ModuleClockNtp

SpecNtpDefault == InitNtpDefault /\ [][NextNtpDefault]_vars

(***************************************************************************)
(* The system clock.  A platform is what module time offers: the CLOCK_*   *)
(* constants it has, whether it has clock_gettime_ns, and what its clocks  *)
(* read.                                                                   *)
(***************************************************************************)
\* the names time.get_clock_info knows
ClockInfoNames == {"monotonic", "perf_counter", "process_time", "thread_time", "time"}

\* time.get_clock_info(name)
get_clock_info(name) ==
  IF name \in ClockInfoNames
  THEN Ok(ClockInfo(FALSE, "clock_gettime", name = "monotonic", "None", FALSE, "None", FALSE))
  ELSE Raise("ValueError")

\* Clock.system sets an info: the name is boottime, or get_clock_info knows it
system_has_info(name) == name = "boottime" \/ get_clock_info(name).err = ""

\* Clock.system
Clock_system(name, const) ==
  IF name = "boottime"
  THEN Clock(name, const, ClockInfo(FALSE, "None", TRUE, "None", FALSE, "None", FALSE))
  ELSE IF get_clock_info(name).err = ""
       THEN Clock(name, const, get_clock_info(name).val)
       ELSE Clock(name, const, "None")

\* one round of the loop of get_clock: the clock of that name is returned
selects(platform, name) ==
  /\ name \in DOMAIN platform.consts
  /\ system_has_info(name)
  /\ Clock_system(name, platform.consts[name]).info.monotonic
  /\ platform.clock_gettime_ns

\* TzUtils.get_clock: priorities boottime, monotonic_raw
get_clock(platform) ==
  IF selects(platform, "boottime")
  THEN Clock_system("boottime", platform.consts["boottime"])
  ELSE IF selects(platform, "monotonic_raw")
       THEN Clock_system("monotonic_raw", platform.consts["monotonic_raw"])
       ELSE Clock("monotonic_ns", "None", "None")

\* TzUtils.get_clock_time
get_clock_time(platform) ==
  LET clock == get_clock(platform)
  IN  IF clock.name = "monotonic_ns"
      THEN ClockTime(platform.monotonic_ns, clock)
      ELSE ClockTime(platform.readings[clock.name], clock)

\* the platforms: with or without CLOCK_BOOTTIME and CLOCK_MONOTONIC_RAW
ClockConsts ==
  {[n \in names |-> IF n = "boottime" THEN 7 ELSE 4] :
     names \in SUBSET {"boottime", "monotonic_raw"}}
Platforms ==
  [consts : ClockConsts, clock_gettime_ns : BOOLEAN,
   readings : [{"boottime", "monotonic_raw"} -> {5000, 7000}],
   monotonic_ns : {6000, 9000}]

(***************************************************************************)
(* SpecSysClock: on a platform, the clock is selected and sampled.         *)
(***************************************************************************)
InitSysClock ==
  /\ x \in Platforms
  /\ y = NoValue
  /\ op = "init"
  /\ res = NoResult
  /\ hashOrder = <<>> /\ zmap = <<>> /\ zcall = <<>> /\ zres = NoResult
  /\ cache = <<>> /\ now = 0 /\ cfile = <<>> /\ ccall = <<>> /\ cres = NoResult

GetClock ==
  /\ res' = Ok(get_clock(x))
  /\ op' = "get_clock"
  /\ UNCHANGED <<x, y, zoneVars, cacheVars>>

GetClockTime ==
  /\ res' = Ok(get_clock_time(x))
  /\ op' = "get_clock_time"
  /\ UNCHANGED <<x, y, zoneVars, cacheVars>>

NextSysClock == GetClock \/ GetClockTime

SpecSysClock == InitSysClock /\ [][NextSysClock]_vars

(***************************************************************************)
(* Arithmetic on tagged datetimes and the real time of an interval.  A     *)
(* timedelta is its length in microseconds.                                *)
(***************************************************************************)
\* timedelta.microseconds: the microseconds field of the normalised timedelta
microseconds(delta) == delta % 1000000

\* TaggedDatetime.__add__
tagged_add(self, delta) ==
  LET ns == microseconds(delta) * 1000
  IN  TaggedDatetime(DatetimeAdd(self.dt, delta), self.zone, self.source, ns, self.clock)

\* TaggedDatetime.__sub__
tagged_sub(self, delta) == tagged_add(self, 0 - delta)

\* Decimal.to_integral_value(ROUND_HALF_DOWN) of nanos / scale, nanos >= 0
to_integral_half_down(nanos, scale) ==
  IF 2 * (nanos % scale) > scale THEN (nanos \div scale) + 1 ELSE nanos \div scale

\* TaggedInterval.round_real
round_real(self, exponent) ==
  IF exponent \notin {1, 1000, 1000000, 1000000000}
  THEN Raise("ValueError")
  ELSE Ok(to_integral_half_down(self.end.clock_ns - self.start.clock_ns,
                                1000000000 \div exponent))

\* TaggedInterval.real_delta: timedelta(microseconds=self.round_real(int(1e9)))
real_delta(self) == round_real(self, 1000000000).val

\* TaggedDatetime.to
to(self, end) == TaggedInterval(self, end)

\* the timedeltas given, in microseconds
TimeDeltas == {0, 7, 1000000, 2000007}

(***************************************************************************)
(* SpecTaggedArith: two tagged datetimes are given; a timedelta is added   *)
(* to the first, taken off again, the interval to the sum is made, and the *)
(* real time of the interval between the two is read.                      *)
(***************************************************************************)
InitTaggedArith ==
  /\ x \in TaggedInputs({"None"}, {ClockEmpty})
  /\ y \in {t \in TaggedInputs({"None"}, {ClockEmpty}) : t.dt.tz = x.dt.tz /\ t.zone = x.zone}
  /\ op = "init"
  /\ res = NoResult
  /\ hashOrder = <<>> /\ zmap = <<>> /\ zcall = <<>> /\ zres = NoResult
  /\ cache = <<>> /\ now = 0 /\ cfile = <<>> /\ ccall = <<>> /\ cres = NoResult

TaggedAdd ==
  /\ \E d \in TimeDeltas : res' = [delta |-> d, out |-> tagged_add(x, d)]
  /\ op' = "add"
  /\ UNCHANGED <<x, y, zoneVars, cacheVars>>

TaggedAddSub ==
  /\ \E d \in TimeDeltas :
       LET sum == tagged_add(x, d)
       IN  res' = [delta |-> d,
                   out |-> IF sum.err # "" THEN sum ELSE tagged_sub(sum.val, d)]
  /\ op' = "add_sub"
  /\ UNCHANGED <<x, y, zoneVars, cacheVars>>

TaggedAddTo ==
  /\ \E d \in TimeDeltas :
       LET sum == tagged_add(x, d)
       IN  res' = [delta |-> d,
                   out |-> IF sum.err # "" THEN sum ELSE to(x, sum.val)]
  /\ op' = "add_to"
  /\ UNCHANGED <<x, y, zoneVars, cacheVars>>

RealDelta ==
  /\ to(x, y).err = ""
  /\ res' = [delta |-> real_delta(to(x, y).val), out |-> to(x, y)]
  /\ op' = "real_delta"
  /\ UNCHANGED <<x, y, zoneVars, cacheVars>>

NextTaggedArith == TaggedAdd \/ TaggedAddSub \/ TaggedAddTo \/ RealDelta

SpecTaggedArith == InitTaggedArith /\ [][NextTaggedArith]_vars

(***************************************************************************)
(* Repeating durations and intervals.  An Optional[int] is NoInt or        *)
(* SomeInt(n); a timedelta is its length in microseconds.                  *)
(***************************************************************************)
RecursionLimit == 3

NoInt == [none |-> TRUE]
SomeInt(n) == [none |-> FALSE, val |-> n]

\* datetime.__sub__ of two aware datetimes: the time between the instants
DatetimeSub(end, start) ==
  LET ue == AsUtc(end)
      us == AsUtc(start)
  IN  (ue.sec - us.sec) * 1000000 + (ue.us - us.us)

\* the dataclass RepeatingInterval(_start, _end, _n_events, start), for a
\* duration that is not negative
RepeatingInterval(start_dt, end_dt, n, start) ==
  [_start |-> start_dt, _end |-> end_dt, _n_events |-> n, start |-> start]

\* _Duration.delta
delta(self) == DatetimeSub(self._end, self._start)

\* RepeatingDuration.n_events
n_events(self) ==
  IF self._n_events = SomeInt(-1) THEN NoInt ELSE self._n_events

\* RepeatingDuration.is_bounded
is_bounded(self) == n_events(self) # NoInt

\* TaggedInterval.repeat
repeat(self, n) == RepeatingInterval(self.start.dt, self.end.dt, n, self.start)

\* RepeatingDuration.at, of RepeatingDuration(start_dt, end_dt, n)
at(start_dt, end_dt, n, start) ==
  RepeatingInterval(start_dt, end_dt,
                    n_events(RepeatingInterval(start_dt, end_dt, n, NoValue)), start)

\* start + delta, by the __add__ of the class of start
anchor_add(start, d) ==
  IF "clock_ns" \in DOMAIN start THEN tagged_add(start, d) ELSE add(start, d)

\* RepeatingInterval.event
event(self, n) == anchor_add(self.start, n * delta(self))

\* RepeatingInterval.__getitem__ with an int
getitem(self, n) == event(self, n)

\* RepeatingInterval.offset
offset(self, o) ==
  LET moved == anchor_add(self.start, o)
  IN  IF moved.err # "" THEN moved
      ELSE Ok(RepeatingInterval(DatetimeAdd(self._start, o), DatetimeAdd(self._end, o),
                                n_events(self), moved.val))

\* the frame of one call of the cached property iso, up to its read of
\* self.iso: n is computed, the string is not yet built
iso_frame(self) ==
  [fn |-> IF self.start = NoValue THEN "RepeatingDuration.iso" ELSE "RepeatingInterval.iso",
   n |-> IF n_events(self) = NoInt THEN <<>> ELSE str(n_events(self).val - 1)]

\* RepeatingInterval.duration as a RepeatingDuration: the same without anchor
as_duration(self) == [self EXCEPT !.start = NoValue]

EventCounts == {NoInt, SomeInt(-1), SomeInt(3)}
EventIndexes == {-1, 0, 2}
Offsets == {7, 1000000}
UtcTagged == {t \in TaggedInputs({"None"}, {ClockEmpty}) : t.dt.tz = TzUtc}
UtcZoned == {z \in ZonedInputs : z.dt.tz \in {TzUtc, ZiCet} /\ z.dt.sec = 0}
UtcDatetimes == {d \in Datetimes : d.tz = TzUtc}
RepeatingInputs ==
  {repeat(iv.val, n) :
     iv \in {q \in {TaggedInterval(a, b) : a \in UtcTagged, b \in UtcTagged} : q.err = ""},
     n \in EventCounts}
  \cup
  {at(p[1], p[2], n, z) :
     p \in {q \in UtcDatetimes \X UtcDatetimes : DatetimeSub(q[2], q[1]) >= 0},
     n \in EventCounts, z \in UtcZoned}
  \cup
  {as_duration(at(p[1], p[2], n, NoValue)) :
     p \in {q \in UtcDatetimes \X UtcDatetimes : DatetimeSub(q[2], q[1]) >= 0},
     n \in EventCounts}

(***************************************************************************)
(* SpecRepeating: a repeating interval (or duration) x is given; an        *)
(* occurrence is read, the interval is shifted, or its iso is read.  y is  *)
(* the stack of the calls of iso in progress.  No frame of iso ever        *)
(* returns: each one reads self.iso before the property has cached a       *)
(* value, which calls iso again, until the interpreter's recursion limit.  *)
(***************************************************************************)
InitRepeating ==
  /\ x \in RepeatingInputs
  /\ y = <<>>
  /\ op = "init"
  /\ res = NoResult
  /\ hashOrder = <<>> /\ zmap = <<>> /\ zcall = <<>> /\ zres = NoResult
  /\ cache = <<>> /\ now = 0 /\ cfile = <<>> /\ ccall = <<>> /\ cres = NoResult

Event ==
  /\ y = <<>> /\ x.start # NoValue
  /\ \E n \in EventIndexes : res' = [n |-> n, out |-> event(x, n)]
  /\ op' = "event"
  /\ UNCHANGED <<x, y, zoneVars, cacheVars>>

GetItem ==
  /\ y = <<>> /\ x.start # NoValue
  /\ \E n \in EventIndexes : res' = [n |-> n, out |-> getitem(x, n)]
  /\ op' = "getitem"
  /\ UNCHANGED <<x, y, zoneVars, cacheVars>>

Offset ==
  /\ y = <<>> /\ x.start # NoValue
  /\ \E n \in EventIndexes, o \in Offsets :
       LET shifted == offset(x, o)
           here == event(x, n)
       IN  res' = [n |-> n, o |-> o, shifted |-> shifted,
                   lhs |-> IF shifted.err # "" THEN shifted ELSE event(shifted.val, n),
                   rhs |-> IF here.err # "" THEN here ELSE anchor_add(here.val, o)]
  /\ op' = "offset"
  /\ UNCHANGED <<x, y, zoneVars, cacheVars>>

IsoCall ==
  /\ y = <<>>
  /\ y' = <<iso_frame(x)>>
  /\ op' = "iso"
  /\ res' = NoResult
  /\ UNCHANGED <<x, zoneVars, cacheVars>>

IsoRecurse ==
  /\ y # <<>> /\ Len(y) < RecursionLimit
  /\ y' = Append(y, iso_frame(x))
  /\ UNCHANGED <<x, op, res, zoneVars, cacheVars>>

IsoOverflow ==
  /\ y # <<>> /\ Len(y) = RecursionLimit
  /\ y' = <<>>
  /\ res' = Raise("RecursionError")
  /\ op' = "iso returned"
  /\ UNCHANGED <<x, zoneVars, cacheVars>>

NextRepeating == Event \/ GetItem \/ Offset \/ IsoCall \/ IsoRecurse \/ IsoOverflow

SpecRepeating == InitRepeating /\ [][NextRepeating]_vars

(***************************************************************************)
(* Durations.  A datetime is here the record of its fields.                *)
(***************************************************************************)
\* the fields of a datetime, most significant first
fields(d) == <<d.year, d.month, d.day, d.hour, d.minute, d.second, d.microsecond>>

\* a < b by the first place where they differ
RECURSIVE TupleLt(_, _)
TupleLt(a, b) ==
  IF a = <<>> THEN FALSE
  ELSE Head(a) < Head(b) \/ (Head(a) = Head(b) /\ TupleLt(Tail(a), Tail(b)))

\* _Duration.__post_init__: the message of the ValueError of a negative
\* duration formats self, whose iso is a cached_property of a NamedTuple
\* and raises TypeError first
Duration(start, end) ==
  IF TupleLt(fields(end), fields(start))
  THEN Raise("TypeError")
  ELSE Ok([_start |-> start, _end |-> end])

\* _Duration.ymdhmun
ymdhmun(self) ==
  LET start == self._start
      end == self._end
  IN  [Y |-> end.year - start.year,
       M |-> end.month - start.month,
       D |-> end.day - start.day,
       h |-> end.hour - start.hour,
       m |-> end.minute - start.minute,
       s |-> end.second - start.second,
       u |-> (end.microsecond - start.microsecond) % 1000,
       n |-> 0]

FieldDatetimes ==
  [year : {2020, 2021}, month : {1, 12}, day : {1, 31}, hour : {0, 23},
   minute : {0}, second : {0, 59}, microsecond : {0, 1500, 999999}]

(***************************************************************************)
(* SpecDuration: two datetimes are given; the duration from the first to   *)
(* the second is made and decomposed.                                      *)
(***************************************************************************)
InitDuration ==
  /\ x \in FieldDatetimes
  /\ y \in FieldDatetimes
  /\ op = "init"
  /\ res = NoResult
  /\ hashOrder = <<>> /\ zmap = <<>> /\ zcall = <<>> /\ zres = NoResult
  /\ cache = <<>> /\ now = 0 /\ cfile = <<>> /\ ccall = <<>> /\ cres = NoResult

MakeDuration ==
  /\ res' = Duration(x, y)
  /\ op' = "Duration"
  /\ UNCHANGED <<x, y, zoneVars, cacheVars>>

Ymdhmun ==
  /\ Duration(x, y).err = ""
  /\ res' = Ok(ymdhmun(Duration(x, y).val))
  /\ op' = "ymdhmun"
  /\ UNCHANGED <<x, y, zoneVars, cacheVars>>

NextDuration == MakeDuration \/ Ymdhmun

SpecDuration == InitDuration /\ [][NextDuration]_vars

(***************************************************************************)
(* TimezoneMap: the lazily resolved mapping.  x is the TimezoneMap object, *)
(* y gives each thread its place in an access and the value it holds, res  *)
(* counts the accesses begun, the calls of the backend's get(), the builds *)
(* and the threads that assigned _map, in order.                           *)
(***************************************************************************)
MaxCalls == 2

\* TimezoneMap.__init__
TimezoneMap == [_map |-> NoValue]

\* _ensure that asks the backend on every access
needs_get_always(self) == TRUE

\* TimezoneMap._ensure: the test  self._map is None
needs_get(self) == self._map = NoValue

\* an assignment that keeps a mapping already set
assign_if_unset(self, local) ==
  IF self._map = NoValue THEN [self EXCEPT !._map = local] ELSE self

\* TimezoneMap._ensure: the assignment  self._map = <what get() returned>
assign(self, local) == [self EXCEPT !._map = local]

\* the accesses that resolve: mapping(), clocks, zones, tagged
MapAccesses == {"mapping", "clocks", "zones", "tagged"}

IdleThread == [pc |-> "idle", fn |-> "none", local |-> NoValue]

MapSources ==
  {[fetch |-> "URLError", xml |-> FALSE, nodes |-> <<>>],
   [fetch |-> "ok", xml |-> TRUE, nodes |-> <<>>],
   [fetch |-> "ok", xml |-> TRUE,
    nodes |-> <<[other |-> "UTC", territory |-> "ZZ", type |-> <<"Etc/UTC", "Etc/GMT">>]>>]}

NoCalls == [calls |-> 0, gets |-> 0, builds |-> 0, assigned |-> <<>>, out |-> NoResult]

InitMapOf(threads) ==
  /\ hashOrder = <<"Etc/GMT", "Etc/UTC", "UTC">>
  /\ cache \in [path : BOOLEAN, expiration_mins : ExpirationMins]
  /\ now = 0
  /\ cfile \in IF cache.path THEN InitialFiles(hashOrder) ELSE {NoFile}
  /\ ccall = [fn |-> "none", rebuilt |-> FALSE, source |-> NoSource]
  /\ cres = NoResult
  /\ x = TimezoneMap
  /\ y = [t \in threads |-> IdleThread]
  /\ op = "init"
  /\ res = NoCalls
  /\ zmap = <<>> /\ zcall = <<>> /\ zres = NoResult

\* a thread reads mapping(), clocks, zones or tagged
MapAccess ==
  /\ res.calls < MaxCalls
  /\ \E t \in DOMAIN y, fn \in MapAccesses :
       /\ y[t].pc = "idle"
       /\ y' = [y EXCEPT ![t] = [pc |-> "check", fn |-> fn, local |-> NoValue]]
  /\ res' = [res EXCEPT !.calls = @ + 1]
  /\ op' = "access"
  /\ UNCHANGED <<x, zoneVars, cacheVars>>

\* _ensure: if self._map is None
EnsureCheck ==
  /\ \E t \in DOMAIN y :
       /\ y[t].pc = "check"
       /\ y' = [y EXCEPT ![t].pc = IF needs_get(x) THEN "read" ELSE "return"]
  /\ op' = "check"
  /\ UNCHANGED <<x, res, zoneVars, cacheVars>>

\* get(): self._read()
BackendRead ==
  /\ \E t \in DOMAIN y :
       /\ y[t].pc = "read"
       /\ LET r == read(cache, cfile, now)
          IN  /\ y' = [y EXCEPT ![t] =
                         IF r.err # "" THEN IdleThread
                         ELSE IF r.none THEN [@ EXCEPT !.pc = "save"]
                         ELSE [@ EXCEPT !.pc = "assign", !.local = r.val]]
              /\ res' = [res EXCEPT !.gets = @ + 1,
                                    !.out = IF r.err # "" THEN Raise(r.err) ELSE @]
  /\ op' = "read"
  /\ UNCHANGED <<x, zoneVars, cacheVars>>

\* get(): self._save(), the build ending after d
BackendSave ==
  /\ \E t \in DOMAIN y, source \in MapSources, d \in BuildTimes :
       /\ y[t].pc = "save"
       /\ now + d <= MaxNow
       /\ LET saved == save(cache, cfile, source, hashOrder, now + d)
          IN  /\ y' = [y EXCEPT ![t] =
                         IF saved.res.err # "" THEN IdleThread
                         ELSE [@ EXCEPT !.pc = "assign", !.local = saved.res.val]]
              /\ res' = [res EXCEPT !.builds = @ + 1,
                                    !.out = IF saved.res.err # "" THEN saved.res ELSE @]
              /\ cfile' = saved.file
              /\ now' = now + d
  /\ op' = "save"
  /\ UNCHANGED <<x, cache, ccall, cres, zoneVars>>

\* _ensure: self._map = ...
EnsureAssign ==
  /\ \E t \in DOMAIN y :
       /\ y[t].pc = "assign"
       /\ x' = assign(x, y[t].local)
       /\ y' = [y EXCEPT ![t].pc = "return"]
       /\ res' = [res EXCEPT !.assigned = Append(@, t)]
  /\ op' = "assign"
  /\ UNCHANGED <<zoneVars, cacheVars>>

\* the access returns what it makes of self._map; tagged goes on to read
\* self.zones, which ensures again
MapReturn ==
  /\ \E t \in DOMAIN y :
       /\ y[t].pc = "return"
       /\ y' = [y EXCEPT ![t] = IF @.fn = "tagged"
                                THEN [@ EXCEPT !.pc = "check", !.fn = "zones"]
                                ELSE [@ EXCEPT !.pc = "idle"]]
       /\ res' = [res EXCEPT !.out = [err |-> "", val |-> x._map, fn |-> y[t].fn,
                                      at |-> now]]
  /\ op' = "return"
  /\ UNCHANGED <<x, zoneVars, cacheVars>>

NextMap ==
  MapAccess \/ EnsureCheck \/ BackendRead \/ BackendSave \/ EnsureAssign \/ MapReturn
    \/ Advance

(***************************************************************************)
(* SpecMapSingle: one thread uses the TimezoneMap.                         *)
(***************************************************************************)
InitMapSingle == InitMapOf({1})

SpecMapSingle == InitMapSingle /\ [][NextMap]_vars

(***************************************************************************)
(* SpecMapRace: two threads use one TimezoneMap; every step of theirs can  *)
(* come between two steps of the other.                                    *)
(***************************************************************************)
InitMapRace == InitMapOf({1, 2})

SpecMapRace == InitMapRace /\ [][NextMap]_vars

(***************************************************************************)
(* The claims about tagged datetimes and intervals.                        *)
(***************************************************************************)
\* the UTC instant of a is not after the UTC instant of b
InstantLeq(a, b) ==
  LET ua == AsUtc(a)
      ub == AsUtc(b)
  IN  ua.sec < ub.sec \/ (ua.sec = ub.sec /\ ua.us <= ub.us)

\* the microseconds from the UTC instant of a to that of b, as a natural
MicrosBetween(a, b) ==
  LET ua == AsUtc(a)
      ub == AsUtc(b)
  IN  IF ub.us < ua.us
      THEN BigMicros(ub.sec - ua.sec - 1, ub.us - ua.us + 1000000)
      ELSE BigMicros(ub.sec - ua.sec, ub.us - ua.us)

\* C1: TaggedInterval(start, end) is constructed if and only if the UTC
\* instant of start is not after that of end and start.clock_ns <= end.clock_ns;
\* in every other case InvalidIntervalError is raised and there is no interval.
ThmC1 ==
  op = "TaggedInterval" =>
    IF InstantLeq(x.dt, y.dt) /\ x.clock_ns <= y.clock_ns
    THEN res = Ok([start |-> x, end |-> y])
    ELSE res = Raise("InvalidIntervalError")

\* C1 witness: equal UTC instants read in different tzinfos, reversed ticks,
\* and the construction was refused.
WitC1 ==
  /\ op = "TaggedInterval"
  /\ x.dt.tz # y.dt.tz
  /\ DatetimeEq(x.dt, y.dt)
  /\ x.clock_ns > y.clock_ns
  /\ res.err = "InvalidIntervalError"

\* C2: for every constructed TaggedInterval, real_nanos is end.clock_ns -
\* start.clock_ns and is >= 0, and wall_nanos is the difference of the two UTC
\* instants in nanoseconds (1000 times the difference in microseconds).
CexC2 ==
  (op = "TaggedInterval" /\ res.err = "") =>
    /\ real_nanos(res.val) = y.clock_ns - x.clock_ns
    /\ real_nanos(res.val) >= 0
    /\ wall_nanos(res.val) = BigMulSmall(MicrosBetween(x.dt, y.dt), 1000)

\* C3: TaggedInterval(start, end) with start.clock different from end.clock
\* fails with ClockMismatchError or InvalidIntervalError, also when the wall
\* clock ordering and the tick ordering both hold.
CexC3 ==
  (op = "TaggedInterval" /\ x.clock # y.clock) =>
    res.err \in {"ClockMismatchError", "InvalidIntervalError"}

\* C4: x.at_clock(sample) raises ClockMismatchError when sample.clock differs
\* from x.clock; otherwise it returns a TaggedDatetime with clock_ns =
\* sample.nanos, the clock, zone and source of x, and the wall time of x
\* shifted by floor((sample.nanos - x.clock_ns) / 1000) microseconds.
CexC4 ==
  op = "at_clock" =>
    IF y.clock # x.clock
    THEN res = Raise("ClockMismatchError")
    ELSE res = Ok([dt |-> DatetimeAdd(x.dt, (y.clock_ns - x.clock_ns) \div 1000),
                   zone |-> x.zone, source |-> x.source,
                   clock_ns |-> y.clock_ns, clock |-> x.clock])

(***************************************************************************)
(* The claims about the zone lookups and the built mapping.                *)
(***************************************************************************)
\* the zones that the mapping holds for a name under a territory: "primary"
\* is territory 001, None and "any" are the union over all territories
Matches(mp, zone, territory) ==
  LET d == Get(mp, zone, EmptyDict)
  IN  IF territory \in {TerrNone, "any"} THEN UNION {d[t] : t \in DOMAIN d}
      ELSE Get(d, IF territory = "primary" THEN "001" ELSE territory, {})

\* the zone keys in lexicographic order
LexOrder == <<"Etc/GMT", "Etc/UTC", "UTC">>

\* C5: only(name, territory) returns the single matching zone when exactly one
\* zone matches, fails with MappedTzNotFoundError when none matches and with
\* MappedTzNotUniqueError when more than one matches; it never returns None.
CexC5 ==
  zcall.fn = "only" =>
    LET matches == Matches(zmap.mp, zcall.zone, zcall.territory)
    IN  /\ zres.val # PyNone
        /\ Cardinality(matches) = 1 => zres.err = "" /\ zres.val \in matches
        /\ Cardinality(matches) = 0 => zres = Raise("MappedTzNotFoundError")
        /\ Cardinality(matches) > 1 => zres = Raise("MappedTzNotUniqueError")

\* C6: all(name, territory) returns exactly the zones mapped to the name under
\* the territory ("primary" meaning 001), the union over all territories for
\* None or "any", and the empty set, never an error, for an absent name or
\* territory.
CexC6 ==
  zcall.fn = "all" => zres = Ok(Matches(zmap.mp, zcall.zone, zcall.territory))

\* C7: first(name, territory) returns the lexicographically smallest zone of
\* all(name, territory) when that set is non-empty, and otherwise returns None
\* or fails with a typed lookup error.
CexC7 ==
  zcall.fn = "first" =>
    LET matches == Matches(zmap.mp, zcall.zone, zcall.territory)
    IN  IF matches # {}
        THEN zres = Ok(IterSeq(LexOrder, matches)[1])
        ELSE zres = Ok(PyNone) \/ zres.err = "MappedTzNotFoundError"

\* C8: only_local and first_local do not fail when the mapping has no match
\* for the local zone name: with sys enabled they take the zone that the
\* operating-system probe resolves to, otherwise with etc enabled the Etc/
\* zone of the current UTC offset.
CexC8 ==
  (/\ zcall.fn \in {"only_local", "first_local"}
   /\ Matches(zmap.mp, zcall.zone, zcall.territory) = {}) =>
    LET probed == IF zcall.sys /\ zcall.probe # TerrNone
                  THEN Matches(zmap.mp, zcall.probe, zcall.territory)
                  ELSE {}
    IN  /\ zres.err = ""
        /\ probed # {} => zres.val \in probed
        /\ (probed = {} /\ zcall.etc) => zres.val.key \in {get_offset_zone(o) : o \in GmtOffsets}

\* the document has a mapZone element for this name and territory
HasMapZone(doc, name, territory) ==
  \E i \in 1..Len(doc) : doc[i].other = name /\ doc[i].territory = territory

\* the mapping sends the IANA zone z to itself: mapping[z]["001"] = {z}, and
\* only(z) with the default territory returns z
MapsToItself(order, mp, z) ==
  /\ Get(Get(mp, z, EmptyDict), "001", {}) = {ZoneInfoObj(z)}
  /\ only(order, mp, z, "primary") = Ok(ZoneInfoObj(z))

\* C9 as stated: after a build, every IANA zone z of the host has
\* mapping[z]["001"] = {z} once all CLDR entries are merged in, so only(z) with
\* the default territory returns z.
CexC9 ==
  (zcall.fn = "build" /\ zres.err = "") =>
    \A z \in IanaZones : MapsToItself(hashOrder, zmap.mp, z)

\* C9 amended: after a build, every IANA zone z of the host that no CLDR
\* mapZone element names as its other attribute with territory 001 has
\* mapping[z]["001"] = {z}, so only(z) with the default territory returns z.
ThmC9 ==
  (zcall.fn = "build" /\ zres.err = "") =>
    \A z \in IanaZones :
      ~HasMapZone(zcall.doc, z, "001") => MapsToItself(hashOrder, zmap.mp, z)

\* C9 witness: a build merged an element that names the IANA zone UTC under
\* another territory, and UTC still maps to itself.
WitC9 ==
  /\ zcall.fn = "build"
  /\ zres.err = ""
  /\ HasMapZone(zcall.doc, "UTC", "ZZ")
  /\ ~HasMapZone(zcall.doc, "UTC", "001")
  /\ zmap.mp["UTC"]["ZZ"] # {}
  /\ MapsToItself(hashOrder, zmap.mp, "UTC")

WellFormed(file) ==
  file.exists /\ file.json /\ DOMAIN file.doc = {"downloadTimestamp", "mapping"}

\* the time a well-formed file was written, and the mapping it holds
FileTimestamp(file) == file.doc["downloadTimestamp"].v.iso
FileMapping(file) ==
  LET js == file.doc["mapping"].v
  IN  [n \in DOMAIN js |->
         [t \in DOMAIN js[n] |-> {StrObj(js[n][t][i]) : i \in 1..Len(js[n][t])}]]

\* a mapping as it reads after it was stored: every zone by its key
Stored(mp) ==
  [n \in DOMAIN mp |-> [t \in DOMAIN mp[n] |-> {StrObj(e.key) : e \in mp[n][t]}]]

\* the file holds the mapping mp, written at time t
HoldsAt(file, mp, t) ==
  WellFormed(file) /\ FileTimestamp(file) = t /\ FileMapping(file) = Stored(mp)

\* the call rebuilt through the resolver: its outcome is that of the build
\* from the source, and a built mapping is persisted if a location is set
Rebuilt ==
  /\ ccall'.rebuilt
  /\ cres' = download_and_build(ccall'.source)
  /\ cres'.err = "" =>
       IF cache.path THEN HoldsAt(cfile', cres'.val, now') ELSE cfile' = cfile

\* C11: with the file absent or a cache document, get() returns the mapping
\* of the file, without a rebuild and without writing, exactly when a location
\* is configured, the file exists and its age is at most expiration_mins * 60
\* seconds; in every other case it rebuilds, returns the fresh mapping and, if
\* a location is configured, persists it with the time of the build.
ThmC11 ==
  [][(CacheGet /\ (~cfile.exists \/ WellFormed(cfile))) =>
       IF /\ cache.path
          /\ cfile.exists
          /\ now - FileTimestamp(cfile) <= cache.expiration_mins * 60
       THEN cres' = Ok(FileMapping(cfile)) /\ cfile' = cfile /\ ~ccall'.rebuilt
       ELSE Rebuilt]_vars

\* C11 witness: get() served the file at an age of exactly the limit.
WitC11 ==
  /\ ccall.fn = "get"
  /\ ~ccall.rebuilt
  /\ cres.err = ""
  /\ cache.expiration_mins = 1
  /\ now - FileTimestamp(cfile) = 60

\* C12: download() always rebuilds, whatever the file; with a location it
\* leaves the new mapping in the file with the time of the build, and a get()
\* that follows within the expiration period is served from the file without
\* another rebuild.
ThmC12 ==
  [][/\ CacheDownload =>
          LET built == download_and_build(ccall'.source)
          IN  /\ ccall'.rebuilt
              /\ cres' = IF built.err # "" THEN built ELSE Ok(PyNone)
              /\ built.err = "" =>
                    IF cache.path THEN HoldsAt(cfile', built.val, now')
                    ELSE cfile' = cfile
     /\ (/\ CacheGet
         /\ ccall.fn = "download" /\ cres.err = "" /\ cache.path
         /\ now - FileTimestamp(cfile) <= cache.expiration_mins * 60) =>
          /\ ~ccall'.rebuilt
          /\ cfile' = cfile
          /\ cres' = Ok(Stored(download_and_build(ccall.source).val))]_vars

\* C12 witness: a download at a later time rebuilt and left a document with
\* that time in the file.
WitC12 ==
  /\ ccall.fn = "download"
  /\ ccall.rebuilt
  /\ cres.err = ""
  /\ now > 0
  /\ WellFormed(cfile)
  /\ FileTimestamp(cfile) = now

\* C13: get() with a configured location whose file exists but is not a cache
\* document rebuilds, overwrites the file and returns the fresh mapping.
CexC13 ==
  [][(CacheGet /\ cache.path /\ cfile.exists /\ ~WellFormed(cfile)) => Rebuilt]_vars

\* C14: when the build fails during get() or download(), the error reaches
\* the caller, no mapping is returned and the file is as it was.
ThmC14 ==
  [][((CacheGet \/ CacheDownload) /\ ccall'.rebuilt
        /\ download_and_build(ccall'.source).err # "") =>
       /\ cres' = Raise(download_and_build(ccall'.source).err)
       /\ cfile' = cfile]_vars

\* C14 witness: a rebuild failed on an unknown IANA id and the cache document
\* is still in the file.
WitC14 ==
  /\ ccall.fn \in {"get", "download"}
  /\ ccall.rebuilt
  /\ cres.err = "ZoneInfoNotFoundError"
  /\ cache.path
  /\ WellFormed(cfile)

(***************************************************************************)
(* The claims about ZonedDatetime.                                         *)
(***************************************************************************)
\* C15: a zoned datetime is never constructed from a naive datetime, every
\* construction path given one raises DatetimeMissingZoneError: parse of a
\* text that names a known zone and whose datetime has no UTC offset raises
\* DatetimeMissingZoneError.
CexC15 ==
  (op = "parse" /\ y.s.bracketed /\ y.s.zone \in TzKeys /\ y.s.raw_dt.off = <<>>)
    => res.err = "DatetimeMissingZoneError"

\* the zone b is the zone a, where a zone named UTC is written and read back
\* as Etc/UTC
SameZone(a, b) == IF ZoneStr(a) = "UTC" THEN b = ZiEtcUtc ELSE b = a

ClaimedOffsetStr(secs) ==
  LET a == Abs(secs)
  IN  IF a = 0
      THEN ZuluText
      ELSE <<IF secs < 0 THEN MinusSign ELSE "+">>
             \o zfill(str(a \div 3600), 2) \o <<":">>
             \o zfill(str((a \div 60) % 60), 2)
             \o (IF a % 60 # 0 THEN <<":">> \o zfill(str(a % 60), 2) ELSE <<>>)

\* C17: offset_str is Z for a zero offset, else the sign and the zero-padded
\* HH:MM of the absolute offset, with :SS only for a non-zero seconds part.
CexC17 ==
  op = "offset_str" => res.val = ClaimedOffsetStr(UtcOffset(x.zone, x.dt))

(***************************************************************************)
(* The claims about TzUtils.                                               *)
(***************************************************************************)
\* /etc/timezone is present: it exists and can be read
FilePresent == x.file.exists /\ x.file.readable
\* the name in /etc/timezone: its text without the blanks around it
FileName == strip(x.file.text)

\* C18: the POSIX probe raises ZoneMismatchError when /etc/timezone and $TZ
\* are both present and differ; otherwise it returns the name of the file if
\* the file is present, else the name in $TZ if it is set, else None; a file
\* that exists and cannot be read counts as absent.
ThmC18 ==
  op = "get_nix_zone" =>
    IF FilePresent /\ x.env.some /\ FileName # x.env.text
    THEN res.err = "ZoneMismatchError"
    ELSE IF FilePresent THEN res = Ok(SysTzInfo(FileName, "None"))
    ELSE IF x.env.some THEN res = Ok(SysTzInfo(x.env.text, "None"))
    ELSE res = Ok(PyNone)

\* C18 witness: with a file that cannot be read and $TZ set, the probe
\* returned the name in $TZ.
WitC18 ==
  /\ op = "get_nix_zone"
  /\ x.file = UnreadableTimezoneFile
  /\ x.env.some
  /\ res = Ok(SysTzInfo(x.env.text, "None"))

\* the keyword in lower case with hyphens for blanks and underscores
Normalised(keyword) == replace(replace(lower(keyword), <<" ">>, <<"-">>), <<"_">>, <<"-">>)
ClaimedContinents == {Antarctica, Asia, Europe, NorthAmerica, Oceania, SouthAmerica}

\* C19: a keyword that is one of antarctica, asia, europe, north-america,
\* oceania and south-america in any case and with blank, underscore or hyphen
\* as separator is resolved to <continent>.pool.ntp.org, which is the host
\* asked; any other keyword is rejected with LookupError and no request.
CexC19 ==
  op = "get_ntp_time" =>
    IF Normalised(y.server) \in ClaimedContinents
    THEN /\ res.err = ""
         /\ res.val.server = Normalised(y.server) \o PoolSuffix
         /\ y.requests = <<res.val.server>>
    ELSE res.err = "LookupError" /\ y.requests = <<>>

\* the timestamp of the response that an attribute names
NamedTimestamp(response, member) ==
  CASE member = ClientSent -> response.orig_timestamp
    [] member = ServerReceived -> response.recv_timestamp
    [] member = ServerSent -> response.tx_timestamp
    [] member = ClientReceived -> response.dest_timestamp

\* C20: the sample get_ntp_clock(server, which) returns has the ticks of the
\* timestamp that which names, and a descriptor with is_ntp and is_epoch
\* true, the name <server>:<which with hyphens>, the server, and the
\* precision and the stratum of the server's response.
CexC20 ==
  (op = "get_ntp_clock" /\ res.err = "") =>
    LET member == NtpClockType_of(y.attribute).val
        info == res.val.clock.info
    IN  /\ res.val.nanos = round_s_to_ns(NamedTimestamp(x.response, member))
        /\ info.is_ntp /\ info.is_epoch
        /\ res.val.clock.name = y.server \o <<":">> \o replace(member, <<"_">>, <<"-">>)
        /\ info.server = y.server
        /\ info.implementation = <<"n", "t", "p", ":">> \o str(x.response.stratum)
        /\ info.resolution = x.response.precision

(***************************************************************************)
(* The claims about the default NTP continent.                             *)
(***************************************************************************)
\* C21: an NTP sample asked without a server (TzUtils.get_ntp_clock(),
\* suretime.clock.ntp()) queries the pool of the continent that
\* get_ntp_continent returns at that time, and the name of its descriptor is
\* <that continent>:client-sent.
CexC21 ==
  op \in {"TzUtils.get_ntp_clock", "suretime.clock.ntp"} =>
    /\ res.err = ""
    /\ y.requests = <<get_ntp_continent(x) \o PoolSuffix>>
    /\ res.val.clock.name = get_ntp_continent(x) \o <<":">> \o NtpClockType_name(ClientSent)

(***************************************************************************)
(* The claims about the system clock.                                      *)
(***************************************************************************)
\* C22: on a platform with clock_gettime_ns, get_clock returns the boot-time
\* clock if the platform has it, else the raw monotonic clock if the platform
\* has it, else the generic monotonic clock.
CexC22 ==
  (op = "get_clock" /\ x.clock_gettime_ns) =>
    res.val.name = IF "boottime" \in DOMAIN x.consts THEN "boottime"
                   ELSE IF "monotonic_raw" \in DOMAIN x.consts THEN "monotonic_raw"
                   ELSE "monotonic_ns"

(***************************************************************************)
(* The claims about tagged arithmetic and real time.                       *)
(***************************************************************************)
\* C27: real_delta of a TaggedInterval is real_nanos nanoseconds rounded to
\* whole microseconds, a half rounded down.
CexC27 ==
  op = "real_delta" =>
    res.delta = to_integral_half_down(real_nanos(res.out.val), 1000)

\* C29: x + d, when it is constructed, has the clock ticks of x advanced by d
\* (clock_ns = x.clock_ns + d in nanoseconds) and the clock, zone and source
\* of x.
CexC29 ==
  (op = "add" /\ res.out.err = "") =>
    /\ res.out.val.clock_ns = x.clock_ns + res.delta * 1000
    /\ res.out.val.clock = x.clock
    /\ res.out.val.zone = x.zone
    /\ res.out.val.source = x.source

(***************************************************************************)
(* The claims about repeating intervals.                                   *)
(***************************************************************************)
\* C23: event(n) and r[n] are anchor + n * delta, and the nth occurrence of
\* the interval shifted by o is the nth occurrence shifted by o, the shifted
\* interval having the same delta and event count.
CexC23 ==
  /\ (op \in {"event", "getitem"}) => res.out = anchor_add(x.start, res.n * delta(x))
  /\ (op = "offset" /\ res.lhs.err = "" /\ res.rhs.err = "") =>
       /\ res.lhs.val = res.rhs.val
       /\ delta(res.shifted.val) = delta(x)
       /\ n_events(res.shifted.val) = n_events(x)

\* C28: a read of iso that has ended has returned a string that starts with
\* "R" and the repetition count (nothing when the event count is unbounded).
CexC28 ==
  op = "iso returned" =>
    /\ res.err = ""
    /\ SubSeq(res.val, 1, 1 + Len(iso_frame(x).n)) = <<"R">> \o iso_frame(x).n

(***************************************************************************)
(* The claim about durations.                                              *)
(***************************************************************************)
\* C24: each field of the decomposition of a duration is the field of the
\* end minus the field of the start, the sub-second field included.
CexC24 ==
  op = "ymdhmun" =>
    /\ res.val.Y = y.year - x.year
    /\ res.val.M = y.month - x.month
    /\ res.val.D = y.day - x.day
    /\ res.val.h = y.hour - x.hour
    /\ res.val.m = y.minute - x.minute
    /\ res.val.s = y.second - x.second
    /\ res.val.u = y.microsecond - x.microsecond

(***************************************************************************)
(* The claim about the round trip through the cache file.                  *)
(***************************************************************************)
\* C30: a get() served from the file that the get() before it wrote returns
\* the mapping that the rebuild returned.
CexC30 ==
  [][(/\ ccall.fn = "get" /\ ccall.rebuilt /\ cres.err = "" /\ cache.path
      /\ ccall'.fn = "get" /\ ~ccall'.rebuilt /\ cres'.err = "")
     => cres'.val = cres.val]_vars

(***************************************************************************)
(* The claims about the lazily resolved mapping.                           *)
(***************************************************************************)
\* C25: with two threads, each assignment in _ensure replaces whatever
\* _map holds by what the assigning thread got from get(), so the one that
\* lands last is kept; the witness is the race: both threads saw _map unset,
\* get() ran twice with two builds and two writes of the file, and _map is
\* what the thread that assigned last had got.
ThmC25 ==
  [][\A t \in DOMAIN y :
       (y[t].pc = "assign" /\ y'[t].pc = "return") => x'._map = y[t].local]_vars

WitC25 ==
  /\ res.calls = 2 /\ res.gets = 2 /\ res.builds = 2 /\ cache.path
  /\ res.assigned = <<1, 2>>
  /\ y[1].local # y[2].local
  /\ x._map = y[2].local

\* C26: with one thread, once _map is set get() is never called again; a
\* get() that fails leaves _map unset; and an access that finds _map unset
\* calls get().
ThmC26 ==
  [][/\ (x._map # NoValue) => res'.gets = res.gets /\ res'.builds = res.builds
     /\ \A t \in DOMAIN y :
          /\ (y[t].pc \in {"read", "save"} /\ y'[t].pc = "idle") => x'._map = NoValue
          /\ (y[t].pc = "check" /\ y'[t].pc # "check" /\ x._map = NoValue)
               => y'[t].pc = "read"
          /\ (y[t].pc = "check" /\ y'[t].pc # "check" /\ x._map # NoValue)
               => y'[t].pc = "return"]_vars

\* a later access returned the memoized mapping when the cache file had
\* expired, after a single get()
WitC26 ==
  /\ op = "return" /\ res.out.at = now
  /\ res.calls >= 2 /\ res.gets = 1
  /\ x._map # NoValue /\ res.out.val = x._map
  /\ cache.path /\ cfile.exists /\ read(cache, cfile, now).none

====
